---- MODULE Spec2Model ----
(***************************************************************************)
(* Easydoc-Backend: the text-overlay pipeline of fill_pdf.py (the same     *)
(* code is duplicated in app.py, lines 152-388).                           *)
(*                                                                         *)
(*   get_average_char_size  src/fill_pdf.py:12-144                         *)
(*   fill_pdf               src/fill_pdf.py:146-248                        *)
(*   the coordinate picker  src/manual_entry_finder.py                     *)
(*   add_grid_to_pdf        src/pdf_to_grid.py:13-92                       *)
(*   the copy in app.py     src/app.py:152-388 (operators app_...)         *)
(*                                                                         *)
(* Sizes are in points and are modelled as integers; an average is the     *)
(* exact fraction <<sum, count>>.  The code computes in binary floating    *)
(* point: the only comparisons of the outlier filter whose outcome         *)
(* depends on rounding are the exact ties |s - mean| = 2*std with std > 0  *)
(* (CPython drops the 4 of [4,10,10,10,10] and keeps the 72 of             *)
(* [10,10,10,10,72]); a tie is therefore an input of the filter.           *)
(***************************************************************************)
EXTENDS Integers, Sequences, FiniteSets, TLC

(* ------------------------------ bounds -------------------------------- *)
\* pages of the source document
MaxPages == 2
\* length of a synthetic candidate pool
MaxPool == 6
\* placeholders handed to fill_pdf
MaxPh == 2
\* characters of the identifier typed into the picker
MaxText == 2
\* records the picker collects
MaxEntries == 2
\* width and height of a page given to add_grid_to_pdf, in points
MaxDim == 4
\* grid_spacing, in points
MaxSpacing == 3

\* passes followed through a grid loop whose counter does not advance
MaxPasses == 3

(* ------------------------- program constants -------------------------- *)
\* DEFAULT_SIZE = 9
DEFAULT_SIZE == 9
\* the plausible range 4 <= size <= 72
MIN_SIZE == 4
MAX_SIZE == 72
\* y = y - 5
Y_OFFSET == 5
\* Python's None for "size = None" and for an absent dictionary key
NoVal == -1

VARIABLES
    \* ---- get_average_char_size
    ipc,          \* position: "idle","open","m1","m2","m3","final","returned"
    docExists,    \* open(pdf_path, 'rb') succeeds
    numPages,     \* len(reader.pages)
    mediabox,     \* <<width, height>> of its pages, in 1/100 point
    ipage,        \* page_num of the running method loop (1-based)
    sizes,        \* the list sizes
    result,       \* the returned value <<sum, count>>, or <<>> before return
    viaExcept,    \* the return came from the except clause (lines 141-144)
    \* ---- what the document offered (history of the inputs read)
    gathered,     \* in-range candidates of the page analyses that succeeded
    failed,       \* <<method, page>> of the analyses that raised inside a guard
    analysed,     \* <<method, page>> of the loop passes that ran
    offered,      \* per method, its in-range candidates in page order
    \* ---- fill_pdf
    fpc,          \* position: "idle","start","open","group","pages",
                  \*           "writing","done","raised"
    pdf_path,     \* the argument pdf_path, a sequence of name parts
    placeholders, \* the argument placeholders
    output_path_arg, \* the argument output_path as passed, <<>> for None
    output_path,  \* the local output_path after lines 164-168
    char_size,    \* the size returned by get_average_char_size
    page_placeholders, \* the dict page_placeholders (0-based page -> list)
    page_num,     \* page_num of the page loop (0-based)
    pages,        \* reader.pages, merged in place
    writer,       \* the pages added to writer
    output_file,  \* the file at output_path
    destBefore,   \* the file at output_path before the call
    fError,       \* the exception that left fill_pdf, "none" if none
    \* ---- manual_entry_finder.py
    ppc,          \* position: "idle","load","scale","events","crashed",
                  \*           "save","exit"
    original_img, \* <<original_img_width, original_img_height>>
    scale_factor, \* the fraction <<numerator, denominator>>
    display_img_width,
    display_img_height,
    display_img_surface, \* "none", "scaled" (line 58), "original" (line 67),
                  \* "original after error" (line 62)
    input_box_rect, \* the rectangle <<x, y, w, h>>, <<>> before the first frame
    running,
    entries,      \* the list entries
    current_click_target_coords, \* <<x, y>> of fractions, <<>> for None
    input_text,   \* the typed identifier, a sequence of characters
    input_active,
    saved,        \* the content of OUTPUT_FILENAME, <<>> if not written
    entryClicks,  \* history: the event.pos behind each record of entries
    clickPos,     \* history: the event.pos behind current_click_target_coords
    imageClicks,  \* history: the clicks within the image so far, counted up to MaxEntries
    \* ---- pdf_to_grid.py, add_grid_to_pdf
    gpc,          \* position: "idle","open","page","vlines","hlines","done"
    grid_spacing, \* the argument grid_spacing
    grid_page_num, \* page_num of the page loop (0-based)
    grid_width,   \* width
    grid_height,  \* height
    grid_x,       \* x
    grid_y,       \* y
    can,          \* the canvas: its pagesize and what was drawn on it
    grid_writer,  \* the pages added to writer
    grid_output,  \* the file at output_pdf_path
    grid_error,   \* the error the handlers of lines 89-92 printed, or "none"
    \* ---- one font entry in method 1 of get_average_char_size
    font_pc,      \* position: "idle","examine","done"
    font_entry,   \* the font dictionary
    font_sizes,   \* what lines 44-86 append to sizes for it
    \* ---- the pipeline of fill_pdf.py and its copy in app.py, side by side
    copy_in,      \* the document and the arguments both copies are given
    copy_fill,    \* what fill_pdf of fill_pdf.py did with them, <<>> before
    copy_app      \* what fill_pdf of app.py did with them, <<>> before

inferVars == <<ipc, ipage, sizes, result, viaExcept, gathered, failed,
               analysed, offered>>
docVars == <<docExists, numPages, mediabox>>
fillArgs == <<pdf_path, placeholders, output_path_arg>>
fillVars == <<fpc, fillArgs, output_path, char_size, page_placeholders, page_num, pages,
              writer, output_file, destBefore, fError>>

pickerVars == <<ppc, original_img, scale_factor, display_img_width,
                display_img_height, display_img_surface, input_box_rect,
                running, entries, current_click_target_coords, input_text,
                input_active, saved, entryClicks, clickPos,
                imageClicks>>
gridVars == <<gpc, grid_spacing, grid_page_num, grid_width, grid_height,
              grid_x, grid_y, can, grid_writer, grid_output, grid_error>>
fontVars == <<font_pc, font_entry, font_sizes>>
copyVars == <<copy_in, copy_fill, copy_app>>
pipelineVars == <<inferVars, docVars, fillVars, copyVars>>
otherVars == <<pickerVars, gridVars, fontVars, copyVars>>

vars == <<inferVars, docVars, fillVars, otherVars>>

\* manual_entry_finder.py is not running
PickerIdle ==
    /\ ppc = "idle"
    /\ original_img = <<0, 0>>
    /\ scale_factor = <<1, 1>>
    /\ display_img_width = 0
    /\ display_img_height = 0
    /\ display_img_surface = "none"
    /\ input_box_rect = <<>>
    /\ running = FALSE
    /\ entries = <<>>
    /\ current_click_target_coords = <<>>
    /\ input_text = <<>>
    /\ input_active = FALSE
    /\ saved = <<>>
    /\ entryClicks = <<>>
    /\ clickPos = <<>>
    /\ imageClicks = 0

\* add_grid_to_pdf is not running
GridIdle ==
    /\ gpc = "idle"
    /\ grid_spacing = 0
    /\ grid_page_num = 0
    /\ grid_width = 0
    /\ grid_height = 0
    /\ grid_x = 0
    /\ grid_y = 0
    /\ can = [pagesize |-> <<0, 0>>, ops |-> <<>>]
    /\ grid_writer = <<>>
    /\ grid_output = [state |-> "absent", pages |-> <<>>]
    /\ grid_error = "none"

\* no font entry is examined on its own
FontIdle ==
    /\ font_pc = "idle"
    /\ font_entry = <<>>
    /\ font_sizes = <<>>

\* the programs other than the one a specification runs
\* the two copies are not run side by side
CopyIdle ==
    /\ copy_in = <<>>
    /\ copy_fill = <<>>
    /\ copy_app = <<>>

OtherIdle ==
    /\ PickerIdle
    /\ GridIdle
    /\ FontIdle
    /\ CopyIdle

(* ------------------------------ helpers ------------------------------- *)
\* page sizes <<width, height>> in 1/100 point
A4 == <<59527, 84189>>
Letter == <<61200, 79200>>

RECURSIVE SumSeq(_)
SumSeq(s) == IF s = <<>> THEN 0 ELSE Head(s) + SumSeq(Tail(s))

RECURSIVE SeqsUpTo(_, _)
SeqsUpTo(S, n) ==
    IF n = 0 THEN {<<>>}
    ELSE LET shorter == SeqsUpTo(S, n - 1)
         IN  shorter \cup {Append(q, v) : q \in {r \in shorter : Len(r) = n - 1}, v \in S}

RECURSIVE Concat(_)
Concat(ss) == IF ss = <<>> THEN <<>> ELSE Head(ss) \o Concat(Tail(ss))

\* a value of the document lies in the plausible range (the claims' [4, 72])
Plausible(v) == v >= 4 /\ v <= 72

(* ---------------- get_average_char_size: final size ------------------- *)
\* variants of the range test: a missing lower bound, a missing upper bound
InRangeNoLower(size) == size <= MAX_SIZE
InRangeNoUpper(size) == MIN_SIZE <= size
\* "4 <= size <= 72" (lines 85, 101, 119)
InRange(size) == MIN_SIZE <= size /\ size <= MAX_SIZE

\* sum((x - mean) ** 2 for x in sizes), scaled by n^2: sum((n*x - S)^2)
RECURSIVE SqDev(_, _, _)
SqDev(s, n, total) ==
    IF s = <<>> THEN 0
    ELSE (n * Head(s) - total) * (n * Head(s) - total) + SqDev(Tail(s), n, total)

\* variant of the filter: one standard deviation instead of two
WithinOneStd(s, pool, tieKept) ==
    LET n == Len(pool)
        S == SumSeq(pool)
        Q == SqDev(pool, n, S)
    IN  n * (n * s - S) * (n * s - S) <= Q

\* variant of the filter: strictly less than two standard deviations
Within2StdStrict(s, pool, tieKept) ==
    LET n == Len(pool)
        S == SumSeq(pool)
        Q == SqDev(pool, n, S)
    IN  n * (n * s - S) * (n * s - S) < 4 * Q

\* abs(s - mean) <= 2 * std, with mean = S/n and std = sqrt(Q / n^3):
\*   n * (n*s - S)^2 <= 4 * Q.   tieKept decides an exact tie with std > 0.
Within2Std(s, pool, tieKept) ==
    LET n == Len(pool)
        S == SumSeq(pool)
        Q == SqDev(pool, n, S)
        d == n * (n * s - S) * (n * s - S)
    IN  \/ d < 4 * Q
        \/ d = 4 * Q /\ (Q = 0 \/ tieKept)

\* a pool has a candidate exactly 2 standard deviations from the mean
HasTie(pool) ==
    LET n == Len(pool)
        S == SumSeq(pool)
        Q == SqDev(pool, n, S)
    IN  Q > 0 /\ \E i \in 1..n : n * (n * pool[i] - S) * (n * pool[i] - S) = 4 * Q

\* lines 128-131: sizes = [s for s in sizes if abs(s - mean) <= 2 * std]
RemoveOutliers(pool, tieKept) ==
    IF Len(pool) > 2
    THEN SelectSeq(pool, LAMBDA s : Within2Std(s, pool, tieKept))
    ELSE pool

\* lines 126-139, and the except clause 141-144 for the division by zero of
\* line 133 when the filter leaves nothing
FinalSize(pool, tieKept) ==
    IF pool = <<>>
    THEN <<DEFAULT_SIZE, 1>>
    ELSE LET kept == RemoveOutliers(pool, tieKept)
         IN  IF kept = <<>>
             THEN <<DEFAULT_SIZE, 1>>
             ELSE <<SumSeq(kept), Len(kept)>>

\* comparisons of a fraction <<sum, count>> with an integer
RatEq(r, k) == r[1] = k * r[2]
RatGeq(r, k) == r[1] >= k * r[2]
RatLeq(r, k) == r[1] <= k * r[2]

(* ---------------- method 1: one font dictionary (42-86) --------------- *)
\* A font entry as the code reads it.  Metric values are the numbers stored
\* in the descriptor; NoVal marks an absent key.  m3 is matrix[3] in
\* thousandths, so that abs(float(matrix[3]) * 1000) = |m3|.
PlainFont ==
    [isDict |-> TRUE, hasDesc |-> FALSE,
     cap |-> NoVal, xh |-> NoVal, asc |-> NoVal, fh |-> NoVal,
     hasBBox |-> FALSE, bboxLen |-> 0, b1 |-> 0, b3 |-> 0,
     hasBase |-> FALSE, dash |-> FALSE, digits |-> FALSE, suffix |-> 0,
     hasMatrix |-> FALSE, matrixLen |-> 0, m3 |-> 0]

\* lines 50-54: the first present of /CapHeight, /XHeight, /Ascent, /FontHeight
FirstMetric(font) ==
    IF font.cap # NoVal THEN font.cap
    ELSE IF font.xh # NoVal THEN font.xh
    ELSE IF font.asc # NoVal THEN font.asc
    ELSE IF font.fh # NoVal THEN font.fh
    ELSE NoVal

\* variant: a metric outside the plausible range is passed over
DescriptorSizeFirstPlausible(font) ==
    IF ~font.hasDesc THEN NoVal
    ELSE IF Plausible(font.cap) THEN font.cap
    ELSE IF Plausible(font.xh) THEN font.xh
    ELSE IF Plausible(font.asc) THEN font.asc
    ELSE IF Plausible(font.fh) THEN font.fh
    ELSE IF font.hasBBox /\ font.bboxLen >= 4
         THEN ((font.b3 - font.b1) * 12) \div 1000
         ELSE NoVal

\* lines 48-61: 1.1 FontDescriptor metrics, then 1.2 FontBBox
\* (bbox[3] - bbox[1]) / 1000.0 * 12; the sampled boxes make the division exact
DescriptorSize(font) ==
    IF ~font.hasDesc THEN NoVal
    ELSE IF FirstMetric(font) # NoVal THEN FirstMetric(font)
    ELSE IF font.hasBBox /\ font.bboxLen >= 4
         THEN ((font.b3 - font.b1) * 12) \div 1000
         ELSE NoVal

\* lines 64-73: 1.3 a numeric suffix after the last '-' of /BaseFont
BaseFontSize(font, size) ==
    IF size = NoVal /\ font.hasBase /\ font.dash /\ font.digits
    THEN font.suffix
    ELSE size

\* lines 76-83: 1.4 abs(float(matrix[3]) * 1000)
MatrixSize(font, size) ==
    IF size = NoVal /\ font.hasMatrix /\ font.matrixLen >= 4
    THEN IF font.m3 < 0 THEN 0 - font.m3 ELSE font.m3
    ELSE size

\* lines 43-83: the size found for one font entry, NoVal when none
FontSize(font) ==
    IF ~font.isDict THEN NoVal
    ELSE MatrixSize(font, BaseFontSize(font, DescriptorSize(font)))

\* lines 85-86: what one font entry appends to sizes
FontCandidate(font) ==
    LET size == FontSize(font)
    IN  IF size # NoVal /\ InRange(size) THEN <<size>> ELSE <<>>

\* lines 38-86 for one page: fonts is the page's /Resources /Font dictionary
\* in iteration order, <<>> when the page has none
RECURSIVE Method1Sizes(_)
Method1Sizes(fonts) ==
    IF fonts = <<>> THEN <<>>
    ELSE FontCandidate(Head(fonts)) \o Method1Sizes(Tail(fonts))

(* ------------ method 2: one page's content stream (91-107) ------------ *)
\* content = [has: page.contents is truthy, readable: get_data() and the
\* pattern scan succeed, tf: the numbers of the matched "/F<n> <number> Tf"]
Method2SizesDespiteFailure(content) ==
    IF content.has THEN SelectSeq(content.tf, InRange) ELSE <<>>
Method2Sizes(content) ==
    IF content.has /\ content.readable
    THEN SelectSeq(content.tf, InRange)
    ELSE <<>>

(* -------------- method 3: one page's text layout (112-123) ------------ *)
\* layout = [readable: extract_text(0) returns, hasLayout: the returned
\* object has get_text_layout, heights: the 'height' of each layout object]
Method3Sizes(layout) ==
    IF layout.readable /\ layout.hasLayout
    THEN SelectSeq(layout.heights, InRange)
    ELSE <<>>

(* --------------------------- sampled inputs --------------------------- *)
MetricChoices ==
    { <<NoVal, NoVal, NoVal, NoVal>>, <<12, NoVal, NoVal, NoVal>>,
      <<700, 72, NoVal, NoVal>>, <<NoVal, 72, NoVal, NoVal>>,
      <<NoVal, NoVal, 4, 80>>, <<NoVal, NoVal, NoVal, 12>> }
BBoxChoices == { <<FALSE, 0, 0, 0>>, <<TRUE, 4, -250, 750>>, <<TRUE, 4, 0, 6000>>, <<TRUE, 2, 0, 0>> }
BaseChoices == { <<FALSE, FALSE, FALSE, 0>>, <<TRUE, FALSE, FALSE, 0>>,
                 <<TRUE, TRUE, FALSE, 0>>, <<TRUE, TRUE, TRUE, 12>>, <<TRUE, TRUE, TRUE, 80>> }
MatrixChoices == { <<FALSE, 0, 0>>, <<TRUE, 6, 1>>, <<TRUE, 6, -12>>, <<TRUE, 3, 12>> }

MakeFont(hasDesc, m, bb, ba, mx) ==
    [PlainFont EXCEPT !.hasDesc = hasDesc,
        !.cap = m[1], !.xh = m[2], !.asc = m[3], !.fh = m[4],
        !.hasBBox = bb[1], !.bboxLen = bb[2], !.b1 = bb[3], !.b3 = bb[4],
        !.hasBase = ba[1], !.dash = ba[2], !.digits = ba[3], !.suffix = ba[4],
        !.hasMatrix = mx[1], !.matrixLen = mx[2], !.m3 = mx[3]]

\* fonts with at most two of the four sources (metrics, bbox, name, matrix)
FontChoices ==
    { [PlainFont EXCEPT !.isDict = FALSE] } \cup
    { MakeFont(TRUE, m, bb, <<FALSE, FALSE, FALSE, 0>>, <<FALSE, 0, 0>>) :
        m \in MetricChoices, bb \in BBoxChoices } \cup
    { MakeFont(TRUE, m, <<FALSE, 0, 0, 0>>, ba, mx) :
        m \in {<<NoVal, NoVal, NoVal, NoVal>>, <<700, 72, NoVal, NoVal>>},
        ba \in BaseChoices, mx \in MatrixChoices } \cup
    { MakeFont(d, <<NoVal, NoVal, NoVal, NoVal>>, <<FALSE, 0, 0, 0>>, ba, mx) :
        d \in {FALSE}, ba \in BaseChoices, mx \in MatrixChoices }

\* a page's font dictionary: none, one entry, or two entries
FontLists ==
    {<<>>} \cup {<<f>> : f \in FontChoices}
    \cup {<<f, g>> : f \in {MakeFont(TRUE, <<12, NoVal, NoVal, NoVal>>, <<FALSE, 0, 0, 0>>,
                                     <<FALSE, FALSE, FALSE, 0>>, <<FALSE, 0, 0>>)},
                     g \in {MakeFont(FALSE, <<NoVal, NoVal, NoVal, NoVal>>, <<FALSE, 0, 0, 0>>,
                                     <<TRUE, TRUE, TRUE, 12>>, <<FALSE, 0, 0>>),
                            MakeFont(TRUE, <<700, 72, NoVal, NoVal>>, <<FALSE, 0, 0, 0>>,
                                     <<FALSE, FALSE, FALSE, 0>>, <<FALSE, 0, 0>>)}}

TfLists == { <<>>, <<12>>, <<72>>, <<3>>, <<80>>, <<12, 3>> }
ContentChoices ==
    { [has |-> FALSE, readable |-> TRUE, tf |-> <<>>] } \cup
    { [has |-> TRUE, readable |-> TRUE, tf |-> t] : t \in TfLists } \cup
    { [has |-> TRUE, readable |-> FALSE, tf |-> <<12>>] }

HeightLists == { <<>>, <<12>>, <<4>>, <<80>>, <<3, 12>> }
LayoutChoices ==
    { [readable |-> TRUE, hasLayout |-> FALSE, heights |-> <<>>] } \cup
    { [readable |-> TRUE, hasLayout |-> TRUE, heights |-> h] : h \in HeightLists } \cup
    { [readable |-> FALSE, hasLayout |-> TRUE, heights |-> <<12>>] }

(* ------------------ get_average_char_size: the loops ------------------ *)
\* the position after the body of method m has run for page p
\* variant: the later methods are skipped once candidates were found
AfterPageFirstSuccessWins(m, p) ==
    IF p < numPages THEN <<m, p + 1>>
    ELSE IF sizes' # <<>> THEN <<"final", 0>>
    ELSE IF m = "m1" THEN <<"m2", 1>>
    ELSE IF m = "m2" THEN <<"m3", 1>>
    ELSE <<"final", 0>>

AfterPage(m, p) ==
    IF p < numPages THEN <<m, p + 1>>
    ELSE IF m = "m1" THEN <<"m2", 1>>
    ELSE IF m = "m2" THEN <<"m3", 1>>
    ELSE <<"final", 0>>

\* variant: the except clause returns the mean of what was collected
ReturnDefaultKeepsCandidates ==
    /\ ipc' = "returned"
    /\ result' = IF sizes = <<>> THEN <<DEFAULT_SIZE, 1>>
                 ELSE <<SumSeq(sizes), Len(sizes)>>
    /\ viaExcept' = TRUE
    /\ UNCHANGED <<ipage, sizes, gathered, failed, analysed, offered,
                   docVars, fillVars, otherVars>>

\* lines 141-144: return DEFAULT_SIZE from the except clause
ReturnDefault ==
    /\ ipc' = "returned"
    /\ result' = <<DEFAULT_SIZE, 1>>
    /\ viaExcept' = TRUE
    /\ UNCHANGED <<ipage, sizes, gathered, failed, analysed, offered,
                   docVars, fillVars, otherVars>>

\* line 29: open(pdf_path, 'rb') raises
OpenFails ==
    /\ ipc = "open"
    /\ ~docExists
    /\ ReturnDefault

\* lines 29-31
Open ==
    /\ ipc = "open"
    /\ docExists
    /\ IF numPages = 0
       THEN ipc' = "final" /\ ipage' = 0
       ELSE ipc' = "m1" /\ ipage' = 1
    /\ UNCHANGED <<sizes, result, viaExcept, gathered, failed, analysed, offered,
                   docVars, fillVars, otherVars>>

\* lines 35-86, one iteration
Method1Page ==
    /\ ipc = "m1"
    /\ \E fonts \in FontLists :
        /\ sizes' = sizes \o Method1Sizes(fonts)
        /\ LET found == SelectSeq(Concat([i \in 1..Len(fonts) |->
                                  IF FontSize(fonts[i]) = NoVal THEN <<>>
                                  ELSE <<FontSize(fonts[i])>>]), Plausible)
           IN  /\ gathered' = gathered \o found
               /\ offered' = [offered EXCEPT ![1] = @ \o found]
    /\ analysed' = analysed \cup {<<"m1", ipage>>}
    /\ ipc' = AfterPage("m1", ipage)[1]
    /\ ipage' = AfterPage("m1", ipage)[2]
    /\ UNCHANGED <<result, viaExcept, failed, docVars, fillVars, otherVars>>

\* an exception outside the per-page guards: anywhere in method 1
\* (lines 35-86, for example float() of a non-numeric metric) or in the
\* test "if page.contents" of method 2 (line 91)
UnguardedRaise ==
    /\ ipc \in {"m1", "m2"}
    /\ ReturnDefault

\* lines 90-107, one iteration
Method2Page ==
    /\ ipc = "m2"
    /\ \E content \in ContentChoices :
        /\ sizes' = sizes \o Method2Sizes(content)
        /\ LET raised == content.has /\ ~content.readable
           IN  /\ gathered' = IF content.has /\ content.readable
                              THEN gathered \o SelectSeq(content.tf, Plausible)
                              ELSE gathered
               /\ offered' = IF content.has /\ content.readable
                             THEN [offered EXCEPT
                                      ![2] = @ \o SelectSeq(content.tf, Plausible)]
                             ELSE offered
               /\ failed' = IF raised THEN failed \cup {<<"m2", ipage>>} ELSE failed
    /\ analysed' = analysed \cup {<<"m2", ipage>>}
    \* lines 106-107: after the warning the loop goes on with the next page
    /\ ipc' = AfterPage("m2", ipage)[1]
    /\ ipage' = AfterPage("m2", ipage)[2]
    /\ UNCHANGED <<result, viaExcept, docVars, fillVars, otherVars>>

\* lines 111-123, one iteration
Method3Page ==
    /\ ipc = "m3"
    /\ \E layout \in LayoutChoices :
        /\ sizes' = sizes \o Method3Sizes(layout)
        /\ LET raised == ~layout.readable
           IN  /\ gathered' = IF layout.readable /\ layout.hasLayout
                              THEN gathered \o SelectSeq(layout.heights, Plausible)
                              ELSE gathered
               /\ offered' = IF layout.readable /\ layout.hasLayout
                             THEN [offered EXCEPT
                                      ![3] = @ \o SelectSeq(layout.heights, Plausible)]
                             ELSE offered
               /\ failed' = IF raised THEN failed \cup {<<"m3", ipage>>} ELSE failed
    /\ analysed' = analysed \cup {<<"m3", ipage>>}
    \* lines 122-123: after the warning the loop goes on with the next page
    /\ ipc' = AfterPage("m3", ipage)[1]
    /\ ipage' = AfterPage("m3", ipage)[2]
    /\ UNCHANGED <<result, viaExcept, docVars, fillVars, otherVars>>

\* lines 125-139 (and 141-144 when line 133 divides by zero)
Finalize ==
    /\ ipc = "final"
    /\ \E tieKept \in BOOLEAN :
        /\ result' = FinalSize(sizes, tieKept)
        /\ viaExcept' = (sizes # <<>> /\ RemoveOutliers(sizes, tieKept) = <<>>)
    /\ ipc' = "returned"
    /\ UNCHANGED <<ipage, sizes, gathered, failed, analysed, offered,
                   docVars, fillVars, otherVars>>

\* fill_pdf is not running
FillIdle ==
    /\ fpc = "idle"
    /\ pdf_path = <<>>
    /\ placeholders = <<>>
    /\ output_path_arg = <<>>
    /\ output_path = <<>>
    /\ char_size = <<>>
    /\ page_placeholders = <<>>
    /\ page_num = 0
    /\ pages = <<>>
    /\ writer = <<>>
    /\ output_file = [state |-> "absent", pages |-> <<>>]
    /\ destBefore = output_file
    /\ fError = "none"

InferInit ==
    /\ ipc = "open"
    /\ docExists \in BOOLEAN
    /\ numPages \in 0..MaxPages
    /\ mediabox = A4
    /\ ipage = 0
    /\ sizes = <<>>
    /\ result = <<>>
    /\ viaExcept = FALSE
    /\ gathered = <<>>
    /\ failed = {}
    /\ analysed = {}
    /\ offered = <<<<>>, <<>>, <<>>>>
    /\ FillIdle
    /\ OtherIdle

InferNext ==
    \/ OpenFails
    \/ Open
    \/ Method1Page
    \/ UnguardedRaise
    \/ Method2Page
    \/ Method3Page
    \/ Finalize

\* get_average_char_size run on a document
SpecInfer == InferInit /\ [][InferNext]_vars

(* -------- the final-size step fed with a synthetic candidate pool ----- *)
PoolValues == {9, 10, 11, 200}

PoolInit ==
    /\ ipc = "final"
    /\ docExists = TRUE
    /\ numPages = 0
    /\ mediabox = A4
    /\ ipage = 0
    /\ sizes \in SeqsUpTo(PoolValues, MaxPool)
    /\ result = <<>>
    /\ viaExcept = FALSE
    /\ gathered = sizes
    /\ failed = {}
    /\ analysed = {}
    /\ offered = <<sizes, <<>>, <<>>>>
    /\ FillIdle
    /\ OtherIdle

PoolNext == Finalize

SpecPool == PoolInit /\ [][PoolNext]_vars

(* =============================== fill_pdf ============================== *)
\* line 171: char_size = get_average_char_size(pdf_path), as a function of
\* the document: whether it opens, the candidates it yields, how a tie rounds
get_average_char_size(exists, pool, tieKept) ==
    IF exists THEN FinalSize(pool, tieKept) ELSE <<DEFAULT_SIZE, 1>>

\* variant: the groups are keyed by the 1-based page number of the placement
GroupByPageOneBased(phs) ==
    [p \in {phs[i].page : i \in 1..Len(phs)} |->
        SelectSeq(phs, LAMBDA ph : ph.page = p)]

\* lines 184-190: page_placeholders, keyed by the 0-based page number, each
\* list in the order of placeholders
GroupByPage(phs) ==
    [p \in {phs[i].page - 1 : i \in 1..Len(phs)} |->
        SelectSeq(phs, LAMBDA ph : ph.page - 1 = p)]

\* variant: the text is drawn at the placement itself
DrawOpsNoOffset(phs) ==
    [i \in 1..Len(phs) |->
        [x |-> phs[i].x, y |-> phs[i].y, text |-> phs[i].response]]

\* lines 215-222: one can.drawString(x, y - 5, text) per placeholder of the
\* page; drawString starts the run at x, and the placeholder keeps its y
DrawOps(phs) ==
    [i \in 1..Len(phs) |->
        [x |-> phs[i].x, y |-> phs[i].y - Y_OFFSET, text |-> phs[i].response]]

\* line 204: canvas.Canvas(packet) is given no pagesize, and reportlab then
\* makes the page A4, 595.27 by 841.89 points
DefaultPageSize == A4

\* lines 203-226: the text layer of one page
Overlay(phs, size) ==
    [font |-> "Helvetica-Oblique", size |-> size, color |-> <<0, 51, 102>>,
     ops |-> DrawOps(phs), pagesize |-> DefaultPageSize]

\* variant: a layer is merged onto every page
MergedPageAlways(page, pp, n, size) ==
    [page EXCEPT !.layers =
        Append(@, Overlay(IF n \in DOMAIN pp THEN pp[n] ELSE <<>>, size))]

\* lines 199-238: the page after the body of the page loop
MergedPage(page, pp, n, size) ==
    IF n \in DOMAIN pp
    THEN [page EXCEPT !.layers = Append(@, Overlay(pp[n], size))]
    ELSE page

\* the pages of the source document as the reader yields them
SourcePages == [i \in 0..(numPages - 1) |-> [src |-> i, layers |-> <<>>]]

\* the final parts of a name that os.path.splitext takes for its extension
Extensions == {".pdf", ".PDF", ".bak"}

\* os.path.splitext: <<root, ext>>; the extension is the last dotted part of
\* the name, and a name that is nothing but that part has none
splitext(path) ==
    IF Len(path) > 1 /\ path[Len(path)] \in Extensions
    THEN <<SubSeq(path, 1, Len(path) - 1), <<path[Len(path)]>> >>
    ELSE <<path, <<>> >>

\* variant: the extension of the source is kept
OutputPathKeepingExtension(path, given) ==
    IF given = <<>>
    THEN splitext(path)[1] \o <<"_filled">> \o splitext(path)[2]
    ELSE given

\* lines 164-168: f"{base_name}_filled.pdf" unless output_path is given
OutputPath(path, given) ==
    IF given = <<>>
    THEN splitext(path)[1] \o <<"_filled", ".pdf">>
    ELSE given

\* lines 161-172
FillStart ==
    /\ fpc = "start"
    /\ output_path' = OutputPath(pdf_path, output_path_arg)
    /\ \E pool \in {<<>>, <<12>>}, tieKept \in BOOLEAN :
          char_size' = get_average_char_size(docExists, pool, tieKept)
    /\ fpc' = "open"
    /\ UNCHANGED <<fillArgs, page_placeholders, page_num, pages, writer,
                   output_file, destBefore, fError, docVars, inferVars, otherVars>>

\* variant: the missing source is swallowed and an empty document is written
OpenSourceFailsSwallowed ==
    /\ fpc = "open"
    /\ ~docExists
    /\ fpc' = "done"
    /\ output_file' = [state |-> "complete", pages |-> <<>>]
    /\ UNCHANGED <<fillArgs, char_size, page_placeholders, page_num, pages,
                   writer, destBefore, output_path, fError, docVars, inferVars, otherVars>>

\* line 178: open(pdf_path, 'rb') raises FileNotFoundError, which leaves fill_pdf
OpenSourceFails ==
    /\ fpc = "open"
    /\ ~docExists
    /\ fpc' = "raised"
    /\ fError' = "FileNotFoundError"
    /\ UNCHANGED <<fillArgs, char_size, page_placeholders, page_num, pages,
                   writer, output_file, destBefore, output_path, docVars, inferVars, otherVars>>

\* variant: the destination is opened together with the source
OpenSourceOpensDest ==
    /\ fpc = "open"
    /\ docExists
    /\ pages' = SourcePages
    /\ writer' = <<>>
    /\ output_file' = [state |-> "partial", pages |-> <<>>]
    /\ fpc' = "group"
    /\ UNCHANGED <<fillArgs, char_size, page_placeholders, page_num,
                   destBefore, output_path, fError, docVars, inferVars,
                   otherVars>>

\* lines 178-181
OpenSource ==
    /\ fpc = "open"
    /\ docExists
    /\ pages' = SourcePages
    /\ writer' = <<>>
    /\ fpc' = "group"
    /\ UNCHANGED <<fillArgs, char_size, page_placeholders, page_num,
                   output_file, destBefore, output_path, fError, docVars, inferVars, otherVars>>

\* lines 184-190
Group ==
    /\ fpc = "group"
    /\ page_placeholders' = GroupByPage(placeholders)
    /\ page_num' = 0
    /\ fpc' = "pages"
    /\ UNCHANGED <<fillArgs, char_size, pages, writer,
                   output_file, destBefore, output_path, fError, docVars, inferVars, otherVars>>

\* variant: writer.add_page inside the "if page_num in page_placeholders"
ProcessPageSkipsUnfilled ==
    /\ fpc = "pages"
    /\ page_num < numPages
    /\ LET page == MergedPage(pages[page_num], page_placeholders, page_num, char_size)
       IN  /\ pages' = [pages EXCEPT ![page_num] = page]
           /\ writer' = IF page_num \in DOMAIN page_placeholders
                             THEN Append(writer, page)
                             ELSE writer
    /\ page_num' = page_num + 1
    /\ UNCHANGED <<fpc, fillArgs, char_size, page_placeholders,
                   output_file, destBefore, output_path, fError, docVars, inferVars, otherVars>>

\* lines 194-242, one iteration: compose, merge in place, add to the writer
ProcessPage ==
    /\ fpc = "pages"
    /\ page_num < numPages
    /\ LET page == MergedPage(pages[page_num], page_placeholders, page_num, char_size)
       IN  /\ pages' = [pages EXCEPT ![page_num] = page]
           /\ writer' = Append(writer, page)
    /\ page_num' = page_num + 1
    /\ UNCHANGED <<fpc, fillArgs, char_size, page_placeholders,
                   output_file, destBefore, output_path, fError, docVars, inferVars, otherVars>>

\* lines 203-236: composing or merging the layer raises (the canvas or
\* merge_page rejects its input); the exception leaves fill_pdf
ProcessPageFails ==
    /\ fpc = "pages"
    /\ page_num < numPages
    /\ page_num \in DOMAIN page_placeholders
    /\ fpc' = "raised"
    /\ fError' = "MergeError"
    /\ UNCHANGED <<fillArgs, char_size, page_placeholders, page_num, pages,
                   writer, output_file, destBefore, output_path, docVars, inferVars, otherVars>>

\* line 246: open(output_path, 'wb') creates or truncates the destination
OpenDest ==
    /\ fpc = "pages"
    /\ page_num = numPages
    /\ output_file' = [state |-> "partial", pages |-> <<>>]
    /\ fpc' = "writing"
    /\ UNCHANGED <<fillArgs, char_size, page_placeholders, page_num, pages,
                   writer, destBefore, output_path, fError, docVars, inferVars, otherVars>>

\* line 246: open(output_path, 'wb') raises
OpenDestFails ==
    /\ fpc = "pages"
    /\ page_num = numPages
    /\ fpc' = "raised"
    /\ fError' = "WriteError"
    /\ UNCHANGED <<fillArgs, char_size, page_placeholders, page_num, pages,
                   writer, output_file, destBefore, output_path, docVars, inferVars, otherVars>>

\* lines 247-248: writer.write(output_file) completes and the file is closed
WriteDest ==
    /\ fpc = "writing"
    /\ output_file' = [state |-> "complete", pages |-> writer]
    /\ fpc' = "done"
    /\ UNCHANGED <<fillArgs, char_size, page_placeholders, page_num, pages,
                   writer, destBefore, output_path, fError, docVars, inferVars, otherVars>>

\* line 247: writer.write raises after k pages went out; the with statement
\* closes the file and nothing removes it
WriteDestFails ==
    /\ fpc = "writing"
    /\ \E k \in 0..Len(writer) :
          output_file' = [state |-> "partial", pages |-> SubSeq(writer, 1, k)]
    /\ fpc' = "raised"
    /\ fError' = "WriteError"
    /\ UNCHANGED <<fillArgs, char_size, page_placeholders, page_num, pages,
                   writer, destBefore, output_path, docVars, inferVars, otherVars>>

\* the placeholders a caller may pass: page is 1-based and may lie past the
\* last page of the document
PhChoices ==
    [question : {"Name"}, response : {"", "Jane Doe"},
     page : 1..(MaxPages + 1), x : {100, 300}, y : {700}]

\* the page sizes of the documents tried: A4 and US Letter
PageSizes == {A4, Letter}

\* the calls tried: the name of the document and the argument output_path
CallChoices ==
    {[pdf_path |-> <<"form", ".pdf">>, output_path |-> <<>>],
     [pdf_path |-> <<"form", ".PDF">>, output_path |-> <<>>],
     [pdf_path |-> <<"form">>, output_path |-> <<>>],
     [pdf_path |-> <<"form", ".pdf">>, output_path |-> <<"out", ".PDF">>]}

FillInit ==
    /\ fpc = "start"
    /\ docExists \in BOOLEAN
    /\ numPages \in 0..MaxPages
    /\ mediabox \in PageSizes
    /\ \E call \in CallChoices :
          /\ pdf_path = call.pdf_path
          /\ output_path_arg = call.output_path
    /\ output_path = <<>>
    /\ placeholders \in SeqsUpTo(PhChoices, MaxPh)
    /\ char_size = <<>>
    /\ page_placeholders = <<>>
    /\ page_num = 0
    /\ pages = <<>>
    /\ writer = <<>>
    /\ output_file \in {[state |-> "absent", pages |-> <<>>], [state |-> "old", pages |-> <<>>]}
    /\ destBefore = output_file
    /\ fError = "none"
    /\ ipc = "idle"
    /\ ipage = 0
    /\ sizes = <<>>
    /\ result = <<>>
    /\ viaExcept = FALSE
    /\ gathered = <<>>
    /\ failed = {}
    /\ analysed = {}
    /\ offered = <<<<>>, <<>>, <<>>>>
    /\ OtherIdle

Next ==
    \/ FillStart
    \/ OpenSourceFails
    \/ OpenSource
    \/ Group
    \/ ProcessPage
    \/ ProcessPageFails
    \/ OpenDest
    \/ OpenDestFails
    \/ WriteDest
    \/ WriteDestFails

\* one call of fill_pdf
Spec == FillInit /\ [][Next]_vars

\* get_average_char_size is not running; no document is at hand
InferIdle ==
    /\ ipc = "idle"
    /\ ipage = 0
    /\ sizes = <<>>
    /\ result = <<>>
    /\ viaExcept = FALSE
    /\ gathered = <<>>
    /\ failed = {}
    /\ analysed = {}
    /\ offered = <<<<>>, <<>>, <<>>>>

DocIdle ==
    /\ docExists = FALSE
    /\ numPages = 0
    /\ mediabox = A4

(* ======================= manual_entry_finder.py ======================== *)
\* MAX_DISPLAY_WIDTH = 1200, MAX_DISPLAY_HEIGHT = 800
MAX_DISPLAY_WIDTH == 1200
MAX_DISPLAY_HEIGHT == 800
\* TARGET_WIDTH = 600.0, TARGET_HEIGHT = 850.0
TARGET_WIDTH == 600
TARGET_HEIGHT == 850
\* input_box_height = 40
INPUT_BOX_HEIGHT == 40

\* Lengths are whole pixels; a scale factor, a proportion and a document
\* coordinate are exact fractions <<numerator, denominator>>.  The code
\* computes them in binary floating point, which matters in one place:
\* int(length * scale_factor) may fall one below the exact product when that
\* product is a whole number and the quotient scale_factor was rounded
\* (CPython gives int(2191 * (1200 / 2191)) = 1199).
RECURSIVE GCD(_, _)
GCD(a, b) == IF b = 0 THEN a ELSE GCD(b, a % b)

FracEq(r, q) == r[1] * q[2] = q[1] * r[2]
FracLess(r, q) == r[1] * q[2] < q[1] * r[2]

\* the quotient n/d is a binary fraction, so the float division is exact
ExactQuotient(s) == \E k \in 0..12 : s[2] \div GCD(s[1], s[2]) = 2^k

\* variant: only the width is fitted
ScaleFactorWidthOnly(w, h) ==
    IF w > MAX_DISPLAY_WIDTH THEN <<MAX_DISPLAY_WIDTH, w>> ELSE <<1, 1>>

\* lines 42, 47-50: scale_factor before the "if scale_factor < 1.0"
ScaleFactor(w, h) ==
    LET s1 == IF w > MAX_DISPLAY_WIDTH THEN <<MAX_DISPLAY_WIDTH, w>> ELSE <<1, 1>>
    IN  IF h * s1[1] > MAX_DISPLAY_HEIGHT * s1[2]
        THEN <<MAX_DISPLAY_HEIGHT, h>>
        ELSE s1

\* lines 54-55: the values int(length * scale_factor) can take
IntOfProduct(length, s) ==
    LET q == (length * s[1]) \div s[2]
    IN  IF (length * s[1]) % s[2] = 0 /\ ~ExactQuotient(s) /\ q > 0
        THEN {q - 1, q}
        ELSE {q}

\* variant: the top-left y is recorded
MapClickTopLeft(mx, my, dw, dh) ==
    << <<mx * TARGET_WIDTH, dw>>, <<my * TARGET_HEIGHT, dh>> >>

\* variant: whole document points are recorded
MapClickTruncated(mx, my, dw, dh) ==
    << <<(mx * TARGET_WIDTH) \div dw, 1>>,
       <<(TARGET_HEIGHT * dh - my * TARGET_HEIGHT) \div dh, 1>> >>

\* lines 100-110: (target_x, target_y_bottomleft) of a click at (mx, my) on
\* an image displayed dw by dh
MapClick(mx, my, dw, dh) ==
    << <<mx * TARGET_WIDTH, dw>>,
       <<TARGET_HEIGHT * dh - my * TARGET_HEIGHT, dh>> >>

\* variant: the identifier is stored as the response as well
EntryDataWithResponse(text, coords) ==
    [question |-> text, response |-> text,
     position |-> [page |-> 1, x |-> coords[1], y |-> coords[2]]]

\* lines 136-146: entry_data
EntryData(text, coords) ==
    [question |-> text, response |-> <<>>,
     position |-> [page |-> 1, x |-> coords[1], y |-> coords[2]]]

\* pygame.Rect.collidepoint
CollidePoint(rect, pos) ==
    /\ rect[1] <= pos[1] /\ pos[1] < rect[1] + rect[3]
    /\ rect[2] <= pos[2] /\ pos[2] < rect[2] + rect[4]

\* the image files tried: no scaling, a width over the limit whose scaled
\* value is a whole number, a height over the limit
ImageSizes == {<<800, 600>>, <<1201, 700>>, <<1000, 1500>>}

\* the positions clicked, inside and below the displayed image
ClickPositions ==
    {<<0, 0>>, <<1, 0>>, <<display_img_width - 1, display_img_height - 1>>,
     <<10, display_img_height + 10>>, <<0, display_img_height + 1>>}

\* event.unicode of a key press; the clipboard
Unicode == {<<>>, <<"a">>}
Clipboard == {<<>>, <<"a">>}

\* lines 27-38: IMAGE_PATH does not exist, or pygame.image.load raises
LoadImageFails ==
    /\ ppc = "load"
    /\ ppc' = "exit"
    /\ UNCHANGED <<original_img, scale_factor, display_img_width,
                   display_img_height, display_img_surface, input_box_rect,
                   running, entries, current_click_target_coords, input_text,
                   input_active, saved, entryClicks, clickPos, imageClicks,
                   pipelineVars, gridVars, fontVars>>

\* lines 33-34
LoadImage ==
    /\ ppc = "load"
    /\ \E size \in ImageSizes : original_img' = size
    /\ ppc' = "scale"
    /\ UNCHANGED <<scale_factor, display_img_width,
                   display_img_height, display_img_surface, input_box_rect,
                   running, entries, current_click_target_coords, input_text,
                   input_active, saved, entryClicks, clickPos, imageClicks,
                   pipelineVars, gridVars, fontVars>>

\* lines 41-87: the display size, then the window and the empty entry list
ScaleImage ==
    /\ ppc = "scale"
    /\ LET w == original_img[1]
           h == original_img[2]
           s == ScaleFactor(w, h)
       IN  IF FracLess(s, <<1, 1>>)
           THEN \E dw \in IntOfProduct(w, s), dh \in IntOfProduct(h, s),
                   smoothscaleRaises \in BOOLEAN :
                   IF smoothscaleRaises
                   THEN /\ scale_factor' = <<1, 1>>
                        /\ display_img_width' = w
                        /\ display_img_height' = h
                        /\ display_img_surface' = "original after error"
                   ELSE /\ scale_factor' = s
                        /\ display_img_width' = dw
                        /\ display_img_height' = dh
                        /\ display_img_surface' = "scaled"
           ELSE /\ scale_factor' = <<1, 1>>
                /\ display_img_width' = w
                /\ display_img_height' = h
                /\ display_img_surface' = "original"
    /\ entries' = <<>>
    /\ current_click_target_coords' = <<>>
    /\ input_text' = <<>>
    /\ input_active' = FALSE
    /\ running' = TRUE
    /\ ppc' = "events"
    /\ UNCHANGED <<original_img, input_box_rect, saved, entryClicks, clickPos, imageClicks,
                   pipelineVars, gridVars, fontVars>>

\* lines 92-93: pygame.QUIT
Quit ==
    /\ ppc = "events"
    /\ running' = FALSE
    /\ UNCHANGED <<ppc, original_img, scale_factor, display_img_width,
                   display_img_height, display_img_surface, input_box_rect,
                   entries, current_click_target_coords, input_text,
                   input_active, saved, entryClicks, clickPos, imageClicks,
                   pipelineVars, gridVars, fontVars>>

\* lines 95-111: pygame.MOUSEBUTTONDOWN within the displayed image
ClickImage ==
    /\ ppc = "events"
    /\ \E pos \in ClickPositions :
          /\ 0 <= pos[1] /\ pos[1] < display_img_width
          /\ 0 <= pos[2] /\ pos[2] < display_img_height
          /\ current_click_target_coords' =
                MapClick(pos[1], pos[2], display_img_width, display_img_height)
          /\ clickPos' = pos
    /\ imageClicks' = IF imageClicks < MaxEntries THEN imageClicks + 1 ELSE imageClicks
    /\ input_active' = TRUE
    /\ input_text' = <<>>
    /\ UNCHANGED <<ppc, original_img, scale_factor, display_img_width,
                   display_img_height, display_img_surface, input_box_rect,
                   running, entries, saved, entryClicks,
                   pipelineVars, gridVars, fontVars>>

\* lines 112-114: a click outside the image; input_box_rect is assigned by
\* the drawing code of line 173
ClickOutside ==
    /\ ppc = "events"
    /\ input_box_rect # <<>>
    /\ \E pos \in ClickPositions :
          /\ ~(pos[1] < display_img_width /\ pos[2] < display_img_height)
          /\ input_active' = CollidePoint(input_box_rect, pos)
    /\ UNCHANGED <<ppc, original_img, scale_factor, display_img_width,
                   display_img_height, display_img_surface, input_box_rect,
                   running, entries, current_click_target_coords, input_text,
                   saved, entryClicks, clickPos, imageClicks,
                   pipelineVars, gridVars, fontVars>>

\* line 114 during the first pass of the loop: input_box_rect is not yet
\* bound and the NameError ends the program
ClickOutsideFirstFrame ==
    /\ ppc = "events"
    /\ input_box_rect = <<>>
    /\ \E pos \in ClickPositions :
          ~(pos[1] < display_img_width /\ pos[2] < display_img_height)
    /\ ppc' = "crashed"
    /\ UNCHANGED <<original_img, scale_factor, display_img_width,
                   display_img_height, display_img_surface, input_box_rect,
                   running, entries, current_click_target_coords, input_text,
                   input_active, saved, entryClicks, clickPos, imageClicks,
                   pipelineVars, gridVars, fontVars>>

\* lines 121-131: Cmd+V or Ctrl+V; a failing pyperclip.paste is caught
Paste ==
    /\ ppc = "events"
    /\ input_active
    /\ \E pasted_text \in Clipboard :
          /\ Len(input_text) + Len(pasted_text) <= MaxText
          /\ input_text' = input_text \o pasted_text
    /\ UNCHANGED <<ppc, original_img, scale_factor, display_img_width,
                   display_img_height, display_img_surface, input_box_rect,
                   running, entries, current_click_target_coords,
                   input_active, saved, entryClicks, clickPos, imageClicks,
                   pipelineVars, gridVars, fontVars>>

\* variant: Enter appends whatever was typed, the empty text included
EnterWithoutText ==
    /\ ppc = "events"
    /\ input_active
    /\ Len(entries) < MaxEntries
    /\ IF current_click_target_coords # <<>>
       THEN /\ entries' = Append(entries,
                             EntryData(input_text, current_click_target_coords))
            /\ entryClicks' = Append(entryClicks, clickPos)
            /\ input_text' = <<>>
            /\ current_click_target_coords' = <<>>
            /\ input_active' = FALSE
       ELSE UNCHANGED <<entries, entryClicks, input_text,
                        current_click_target_coords, input_active>>
    /\ UNCHANGED <<ppc, original_img, scale_factor, display_img_width,
                   display_img_height, display_img_surface, input_box_rect,
                   running, saved, clickPos, imageClicks,
                   pipelineVars, gridVars, fontVars>>

\* lines 134-156: pygame.K_RETURN
Enter ==
    /\ ppc = "events"
    /\ input_active
    /\ Len(entries) < MaxEntries
    /\ IF current_click_target_coords # <<>> /\ input_text # <<>>
       THEN /\ entries' = Append(entries,
                             EntryData(input_text, current_click_target_coords))
            /\ entryClicks' = Append(entryClicks, clickPos)
            /\ input_text' = <<>>
            /\ current_click_target_coords' = <<>>
            /\ input_active' = FALSE
       ELSE UNCHANGED <<entries, entryClicks, input_text,
                        current_click_target_coords, input_active>>
    /\ UNCHANGED <<ppc, original_img, scale_factor, display_img_width,
                   display_img_height, display_img_surface, input_box_rect,
                   running, saved, clickPos, imageClicks,
                   pipelineVars, gridVars, fontVars>>

\* lines 159-160: pygame.K_BACKSPACE
Backspace ==
    /\ ppc = "events"
    /\ input_active
    /\ input_text' = SubSeq(input_text, 1, Len(input_text) - 1)
    /\ UNCHANGED <<ppc, original_img, scale_factor, display_img_width,
                   display_img_height, display_img_surface, input_box_rect,
                   running, entries, current_click_target_coords,
                   input_active, saved, entryClicks, clickPos, imageClicks,
                   pipelineVars, gridVars, fontVars>>

\* lines 163-166: any other key
TypeKey ==
    /\ ppc = "events"
    /\ input_active
    /\ \E unicode \in Unicode, modifier \in BOOLEAN :
          /\ Len(input_text) + Len(unicode) <= MaxText
          /\ input_text' = IF modifier THEN input_text ELSE input_text \o unicode
    /\ UNCHANGED <<ppc, original_img, scale_factor, display_img_width,
                   display_img_height, display_img_surface, input_box_rect,
                   running, entries, current_click_target_coords,
                   input_active, saved, entryClicks, clickPos, imageClicks,
                   pipelineVars, gridVars, fontVars>>

\* lines 168-190 and the loop test of line 89: the frame is drawn, and the
\* loop ends once running is False
DrawFrame ==
    /\ ppc = "events"
    /\ input_box_rect' = <<5, display_img_height + 5, display_img_width - 10,
                           INPUT_BOX_HEIGHT>>
    /\ ppc' = IF running THEN "events" ELSE "save"
    /\ UNCHANGED <<original_img, scale_factor, display_img_width,
                   display_img_height, display_img_surface,
                   running, entries, current_click_target_coords, input_text,
                   input_active, saved, entryClicks, clickPos, imageClicks,
                   pipelineVars, gridVars, fontVars>>

\* lines 194-206: the list is written if it is not empty; a failure to write
\* is caught
SaveOnExit ==
    /\ ppc = "save"
    /\ \E written \in BOOLEAN :
          saved' = IF entries # <<>> /\ written THEN entries ELSE saved
    /\ ppc' = "exit"
    /\ UNCHANGED <<original_img, scale_factor, display_img_width,
                   display_img_height, display_img_surface, input_box_rect,
                   running, entries, current_click_target_coords, input_text,
                   input_active, entryClicks, clickPos, imageClicks,
                   pipelineVars, gridVars, fontVars>>

PickerInit ==
    /\ ppc = "load"
    /\ original_img = <<0, 0>>
    /\ scale_factor = <<1, 1>>
    /\ display_img_width = 0
    /\ display_img_height = 0
    /\ display_img_surface = "none"
    /\ input_box_rect = <<>>
    /\ running = FALSE
    /\ entries = <<>>
    /\ current_click_target_coords = <<>>
    /\ input_text = <<>>
    /\ input_active = FALSE
    /\ saved = <<>>
    /\ entryClicks = <<>>
    /\ clickPos = <<>>
    /\ imageClicks = 0
    /\ InferIdle
    /\ DocIdle
    /\ FillIdle
    /\ GridIdle
    /\ FontIdle
    /\ CopyIdle

PickerNext ==
    \/ LoadImageFails
    \/ LoadImage
    \/ ScaleImage
    \/ Quit
    \/ ClickImage
    \/ ClickOutside
    \/ ClickOutsideFirstFrame
    \/ Paste
    \/ Enter
    \/ Backspace
    \/ TypeKey
    \/ DrawFrame
    \/ SaveOnExit

\* one run of manual_entry_finder.py
SpecPicker == PickerInit /\ [][PickerNext]_vars

(* ============================ pdf_to_grid.py =========================== *)
\* Lengths are in points; x and y only take whole values (they start at 0
\* and grow by grid_spacing), so a page width of 595.27 bounds them like 595
\* and width and height are modelled as whole numbers.

\* can.line(x1, y1, x2, y2) and can.drawString(x, y, str(int(n)))
Line(x1, y1, x2, y2) == [op |-> "line", at |-> <<x1, y1, x2, y2>>]
Label(px, py, n) == [op |-> "drawString", at |-> <<px, py>>, text |-> n]

\* variant: the line at x = 0 is labelled too
VerticalOpsAllLabelled(px, h) == <<Line(px, 0, px, h), Label(px + 2, 3, px)>>

\* lines 56-58: what one pass of the first loop draws
VerticalOps(px, h) ==
    IF px > 0
    THEN <<Line(px, 0, px, h), Label(px + 2, 3, px)>>
    ELSE <<Line(px, 0, px, h)>>

\* lines 64-65: what one pass of the second loop draws
HorizontalOps(py, w) == <<Line(0, py, w, py), Label(3, py + 2, py)>>

\* lines 32-33: FileNotFoundError, printed by the handler of line 89
GridOpenFails ==
    /\ gpc = "open"
    /\ ~docExists
    /\ gpc' = "done"
    /\ grid_error' = "FileNotFoundError"
    /\ UNCHANGED <<grid_spacing, grid_page_num, grid_width, grid_height,
                   grid_x, grid_y, can, grid_writer, grid_output,
                   pipelineVars, pickerVars, fontVars>>

\* lines 32-36
GridOpen ==
    /\ gpc = "open"
    /\ docExists
    /\ grid_writer' = <<>>
    /\ grid_page_num' = 0
    /\ gpc' = "page"
    /\ UNCHANGED <<grid_spacing, grid_width, grid_height,
                   grid_x, grid_y, can, grid_output, grid_error,
                   pipelineVars, pickerVars, fontVars>>

\* lines 39-54: the page's size is read, the canvas is made, x = 0
GridStartPage ==
    /\ gpc = "page"
    /\ grid_page_num < numPages
    /\ \E w \in 1..MaxDim, h \in 1..MaxDim :
          /\ grid_width' = w
          /\ grid_height' = h
          /\ can' = [pagesize |-> <<w, h>>, ops |-> <<>>]
    /\ grid_x' = 0
    /\ gpc' = "vlines"
    /\ UNCHANGED <<grid_spacing, grid_page_num, grid_y, grid_writer,
                   grid_output, grid_error, pipelineVars, pickerVars, fontVars>>

\* variant: the pass leaves x where it was
VerticalLineNoStep ==
    /\ gpc = "vlines"
    /\ grid_x <= grid_width
    /\ Len(can.ops) < MaxPasses
    /\ can' = [can EXCEPT !.ops = @ \o VerticalOps(grid_x, grid_height)]
    /\ UNCHANGED <<gpc, grid_spacing, grid_page_num, grid_width, grid_height,
                   grid_x, grid_y, grid_writer, grid_output, grid_error,
                   pipelineVars, pickerVars, fontVars>>

\* lines 55-59, one pass; a loop that grid_spacing <= 0 keeps from advancing
\* is followed for MaxPasses passes
VerticalLine ==
    /\ gpc = "vlines"
    /\ grid_x <= grid_width
    /\ grid_spacing >= 1 \/ Len(can.ops) < MaxPasses
    /\ can' = [can EXCEPT !.ops = @ \o VerticalOps(grid_x, grid_height)]
    /\ grid_x' = grid_x + grid_spacing
    /\ UNCHANGED <<gpc, grid_spacing, grid_page_num, grid_width, grid_height,
                   grid_y, grid_writer, grid_output, grid_error,
                   pipelineVars, pickerVars, fontVars>>

\* lines 55 and 62: the first loop ends, y = 0
StartHorizontal ==
    /\ gpc = "vlines"
    /\ ~(grid_x <= grid_width)
    /\ grid_y' = 0
    /\ gpc' = "hlines"
    /\ UNCHANGED <<grid_spacing, grid_page_num, grid_width, grid_height,
                   grid_x, can, grid_writer, grid_output, grid_error,
                   pipelineVars, pickerVars, fontVars>>

\* lines 63-66, one pass
HorizontalLine ==
    /\ gpc = "hlines"
    /\ grid_y <= grid_height
    /\ can' = [can EXCEPT !.ops = @ \o HorizontalOps(grid_y, grid_width)]
    /\ grid_y' = grid_y + grid_spacing
    /\ UNCHANGED <<gpc, grid_spacing, grid_page_num, grid_width, grid_height,
                   grid_x, grid_writer, grid_output, grid_error,
                   pipelineVars, pickerVars, fontVars>>

\* lines 63 and 68-83: the second loop ends, the layer is merged onto the
\* page and the page is added to the writer
GridMergePage ==
    /\ gpc = "hlines"
    /\ ~(grid_y <= grid_height)
    /\ grid_writer' = Append(grid_writer, [src |-> grid_page_num, grid |-> can])
    /\ grid_page_num' = grid_page_num + 1
    /\ gpc' = "page"
    /\ UNCHANGED <<grid_spacing, grid_width, grid_height, grid_x, grid_y, can,
                   grid_output, grid_error, pipelineVars, pickerVars, fontVars>>

\* lines 68-80: saving or merging the layer raises; the handler of line 91
\* prints the error and nothing is written
GridMergeFails ==
    /\ gpc = "hlines"
    /\ ~(grid_y <= grid_height)
    /\ gpc' = "done"
    /\ grid_error' = "Exception"
    /\ UNCHANGED <<grid_spacing, grid_page_num, grid_width, grid_height,
                   grid_x, grid_y, can, grid_writer, grid_output,
                   pipelineVars, pickerVars, fontVars>>

\* lines 85-87
GridWrite ==
    /\ gpc = "page"
    /\ grid_page_num = numPages
    /\ grid_output' = [state |-> "complete", pages |-> grid_writer]
    /\ gpc' = "done"
    /\ UNCHANGED <<grid_spacing, grid_page_num, grid_width, grid_height,
                   grid_x, grid_y, can, grid_writer, grid_error,
                   pipelineVars, pickerVars, fontVars>>

\* lines 85-86 raise: the destination is opened for writing, the handler of
\* line 91 prints the error
GridWriteFails ==
    /\ gpc = "page"
    /\ grid_page_num = numPages
    /\ \E k \in 0..Len(grid_writer) :
          grid_output' = [state |-> "partial", pages |-> SubSeq(grid_writer, 1, k)]
    /\ gpc' = "done"
    /\ grid_error' = "Exception"
    /\ UNCHANGED <<grid_spacing, grid_page_num, grid_width, grid_height,
                   grid_x, grid_y, can, grid_writer,
                   pipelineVars, pickerVars, fontVars>>

GridInit ==
    /\ gpc = "open"
    /\ docExists \in BOOLEAN
    /\ numPages \in 0..MaxPages
    /\ mediabox = A4
    /\ grid_spacing \in (-1)..MaxSpacing
    /\ grid_page_num = 0
    /\ grid_width = 0
    /\ grid_height = 0
    /\ grid_x = 0
    /\ grid_y = 0
    /\ can = [pagesize |-> <<0, 0>>, ops |-> <<>>]
    /\ grid_writer = <<>>
    /\ grid_output = [state |-> "absent", pages |-> <<>>]
    /\ grid_error = "none"
    /\ InferIdle
    /\ FillIdle
    /\ PickerIdle
    /\ FontIdle
    /\ CopyIdle

GridNext ==
    \/ GridOpenFails
    \/ GridOpen
    \/ GridStartPage
    \/ VerticalLine
    \/ StartHorizontal
    \/ HorizontalLine
    \/ GridMergePage
    \/ GridMergeFails
    \/ GridWrite
    \/ GridWriteFails

\* one call of add_grid_to_pdf
SpecGrid == GridInit /\ [][GridNext]_vars

\* the interpreter keeps executing the call: a statement that can run does
SpecGridFair == SpecGrid /\ WF_vars(GridNext)

(* ============ one font entry in method 1 (fill_pdf.py 43-86) ========== *)
\* every combination of the sampled metrics, boxes, names and matrices
AllFonts ==
    { [PlainFont EXCEPT !.isDict = FALSE] } \cup
    { MakeFont(d, m, bb, ba, mx) :
        d \in BOOLEAN, m \in MetricChoices, bb \in BBoxChoices,
        ba \in BaseChoices, mx \in MatrixChoices }

\* lines 43-86 for one entry of the font dictionary
ExamineFont ==
    /\ font_pc = "examine"
    /\ font_sizes' = FontCandidate(font_entry)
    /\ font_pc' = "done"
    /\ UNCHANGED <<font_entry, pipelineVars, pickerVars, gridVars>>

FontInit ==
    /\ font_pc = "examine"
    /\ font_entry \in AllFonts
    /\ font_sizes = <<>>
    /\ InferIdle
    /\ DocIdle
    /\ FillIdle
    /\ PickerIdle
    /\ GridIdle
    /\ CopyIdle

FontNext == ExamineFont

\* the body of the font loop run on one entry
SpecFont == FontInit /\ [][FontNext]_vars

(* ============ app.py, lines 152-388: the copy of the pipeline ========== *)
\* DEFAULT_SIZE = 9 (line 165), "4 <= size <= 72" (line 225), y - 5 (line 358)
app_DEFAULT_SIZE == 9
app_MIN_SIZE == 4
app_MAX_SIZE == 72
app_Y_OFFSET == 5

\* "4 <= size <= 72" (lines 225, 241, 259)
app_InRange(size) == app_MIN_SIZE <= size /\ size <= app_MAX_SIZE

\* line 270: sum((x - mean) ** 2 for x in sizes), scaled by n^2
RECURSIVE app_SqDev(_, _, _)
app_SqDev(s, n, total) ==
    IF s = <<>> THEN 0
    ELSE (n * Head(s) - total) * (n * Head(s) - total) + app_SqDev(Tail(s), n, total)

\* lines 269-271: abs(s - mean) <= 2 * std, as n * (n*s - S)^2 <= 4 * Q
app_Within2Std(s, pool, tieKept) ==
    LET n == Len(pool)
        S == SumSeq(pool)
        Q == app_SqDev(pool, n, S)
        d == n * (n * s - S) * (n * s - S)
    IN  \/ d < 4 * Q
        \/ d = 4 * Q /\ (Q = 0 \/ tieKept)

\* lines 268-271: sizes = [s for s in sizes if abs(s - mean) <= 2 * std]
app_RemoveOutliers(pool, tieKept) ==
    IF Len(pool) > 2
    THEN SelectSeq(pool, LAMBDA s : app_Within2Std(s, pool, tieKept))
    ELSE pool

\* variant: this copy has no outlier rejection
app_FinalSizePlainMean(pool, tieKept) ==
    IF pool = <<>>
    THEN <<app_DEFAULT_SIZE, 1>>
    ELSE <<SumSeq(pool), Len(pool)>>

\* lines 266-279, and the except clause 281-284 for the division by zero of
\* line 273 when the filter leaves nothing
app_FinalSize(pool, tieKept) ==
    IF pool = <<>>
    THEN <<app_DEFAULT_SIZE, 1>>
    ELSE LET kept == app_RemoveOutliers(pool, tieKept)
         IN  IF kept = <<>>
             THEN <<app_DEFAULT_SIZE, 1>>
             ELSE <<SumSeq(kept), Len(kept)>>

\* lines 190-194: the first present of /CapHeight, /XHeight, /Ascent, /FontHeight
app_FirstMetric(font) ==
    IF font.cap # NoVal THEN font.cap
    ELSE IF font.xh # NoVal THEN font.xh
    ELSE IF font.asc # NoVal THEN font.asc
    ELSE IF font.fh # NoVal THEN font.fh
    ELSE NoVal

\* lines 188-201: 1.1 FontDescriptor metrics, then 1.2 FontBBox
\* (bbox[3] - bbox[1]) / 1000.0 * 12; the sampled boxes make the division exact
app_DescriptorSize(font) ==
    IF ~font.hasDesc THEN NoVal
    ELSE IF app_FirstMetric(font) # NoVal THEN app_FirstMetric(font)
    ELSE IF font.hasBBox /\ font.bboxLen >= 4
         THEN ((font.b3 - font.b1) * 12) \div 1000
         ELSE NoVal

\* lines 204-213: 1.3 a numeric suffix after the last '-' of /BaseFont
app_BaseFontSize(font, size) ==
    IF size = NoVal /\ font.hasBase /\ font.dash /\ font.digits
    THEN font.suffix
    ELSE size

\* lines 216-223: 1.4 abs(float(matrix[3]) * 1000)
app_MatrixSize(font, size) ==
    IF size = NoVal /\ font.hasMatrix /\ font.matrixLen >= 4
    THEN IF font.m3 < 0 THEN 0 - font.m3 ELSE font.m3
    ELSE size

\* lines 183-223: the size found for one font entry, NoVal when none
app_FontSize(font) ==
    IF ~font.isDict THEN NoVal
    ELSE app_MatrixSize(font, app_BaseFontSize(font, app_DescriptorSize(font)))

\* lines 225-226: what one font entry appends to sizes
app_FontCandidate(font) ==
    LET size == app_FontSize(font)
    IN  IF size # NoVal /\ app_InRange(size) THEN <<size>> ELSE <<>>

\* lines 178-226 for one page: fonts is the page's /Resources /Font dictionary
\* in iteration order, <<>> when the page has none
RECURSIVE app_Method1Sizes(_)
app_Method1Sizes(fonts) ==
    IF fonts = <<>> THEN <<>>
    ELSE app_FontCandidate(Head(fonts)) \o app_Method1Sizes(Tail(fonts))

\* lines 231-247 for one page
app_Method2Sizes(content) ==
    IF content.has /\ content.readable
    THEN SelectSeq(content.tf, app_InRange)
    ELSE <<>>

\* lines 252-263 for one page
app_Method3Sizes(layout) ==
    IF layout.readable /\ layout.hasLayout
    THEN SelectSeq(layout.heights, app_InRange)
    ELSE <<>>

\* lines 324-330: page_placeholders, keyed by the 0-based page number, each
\* list in the order of placeholders
app_GroupByPage(phs) ==
    [p \in {phs[i].page - 1 : i \in 1..Len(phs)} |->
        SelectSeq(phs, LAMBDA ph : ph.page - 1 = p)]

\* lines 355-362: one can.drawString(x, y - 5, text) per placeholder of the
\* page; drawString starts the run at x, and the placeholder keeps its y
app_DrawOps(phs) ==
    [i \in 1..Len(phs) |->
        [x |-> phs[i].x, y |-> phs[i].y - app_Y_OFFSET, text |-> phs[i].response]]

\* lines 343-366: the text layer of one page
app_Overlay(phs, size) ==
    [font |-> "Helvetica-Oblique", size |-> size, color |-> <<0, 51, 102>>,
     ops |-> app_DrawOps(phs), pagesize |-> DefaultPageSize]

\* lines 339-378: the page after the body of the page loop
app_MergedPage(page, pp, n, size) ==
    IF n \in DOMAIN pp
    THEN [page EXCEPT !.layers = Append(@, app_Overlay(pp[n], size))]
    ELSE page

\* lines 304-308: f"{base_name}_filled.pdf" unless output_path is given
app_OutputPath(path, given) ==
    IF given = <<>>
    THEN splitext(path)[1] \o <<"_filled", ".pdf">>
    ELSE given

(* ================= the two copies given the same call ================== *)
\* A document is the list of its pages, each page with what the three
\* methods read from it; raises says that the test "if page.contents" of
\* method 2 raises on the first page.

\* fill_pdf.py, lines 33-123: the candidates the three loops collect
PoolOf(doc) ==
    Concat([p \in 1..Len(doc) |-> Method1Sizes(doc[p].fonts)])
    \o Concat([p \in 1..Len(doc) |-> Method2Sizes(doc[p].content)])
    \o Concat([p \in 1..Len(doc) |-> Method3Sizes(doc[p].layout)])

\* fill_pdf.py, lines 12-144: the pool at the end of get_average_char_size
\* and the value it returns
InferenceOf(in) ==
    IF ~in.exists
    THEN [pool |-> <<>>, estimate |-> <<DEFAULT_SIZE, 1>>]
    ELSE IF in.raises /\ in.doc # <<>>
    THEN [pool |-> Concat([p \in 1..Len(in.doc) |-> Method1Sizes(in.doc[p].fonts)]),
          estimate |-> <<DEFAULT_SIZE, 1>>]
    ELSE [pool |-> PoolOf(in.doc),
          estimate |-> FinalSize(PoolOf(in.doc), in.tieKept)]

\* fill_pdf.py, lines 146-248: one call of fill_pdf, with no failure other
\* than a missing source
fill_pdfRun(in) ==
    LET inf == InferenceOf(in)
        dest == OutputPath(in.pdf_path, in.output_path)
        pp == GroupByPage(in.placeholders)
        merged == [i \in 1..Len(in.doc) |->
                     MergedPage([src |-> i - 1, layers |-> <<>>], pp, i - 1,
                                inf.estimate)]
    IN  IF ~in.exists
        THEN [pool |-> inf.pool, estimate |-> inf.estimate,
              error |-> "FileNotFoundError", pages |-> <<>>,
              path |-> dest, written |-> <<>>, state |-> "untouched"]
        ELSE [pool |-> inf.pool, estimate |-> inf.estimate,
              error |-> "none", pages |-> merged,
              path |-> dest, written |-> merged, state |-> "complete"]

\* app.py, lines 173-263
app_PoolOf(doc) ==
    Concat([p \in 1..Len(doc) |-> app_Method1Sizes(doc[p].fonts)])
    \o Concat([p \in 1..Len(doc) |-> app_Method2Sizes(doc[p].content)])
    \o Concat([p \in 1..Len(doc) |-> app_Method3Sizes(doc[p].layout)])

\* app.py, lines 152-284
app_InferenceOf(in) ==
    IF ~in.exists
    THEN [pool |-> <<>>, estimate |-> <<app_DEFAULT_SIZE, 1>>]
    ELSE IF in.raises /\ in.doc # <<>>
    THEN [pool |-> Concat([p \in 1..Len(in.doc) |-> app_Method1Sizes(in.doc[p].fonts)]),
          estimate |-> <<app_DEFAULT_SIZE, 1>>]
    ELSE [pool |-> app_PoolOf(in.doc),
          estimate |-> app_FinalSize(app_PoolOf(in.doc), in.tieKept)]

\* app.py, lines 286-388
app_fill_pdfRun(in) ==
    LET inf == app_InferenceOf(in)
        dest == app_OutputPath(in.pdf_path, in.output_path)
        pp == app_GroupByPage(in.placeholders)
        merged == [i \in 1..Len(in.doc) |->
                     app_MergedPage([src |-> i - 1, layers |-> <<>>], pp, i - 1,
                                    inf.estimate)]
    IN  IF ~in.exists
        THEN [pool |-> inf.pool, estimate |-> inf.estimate,
              error |-> "FileNotFoundError", pages |-> <<>>,
              path |-> dest, written |-> <<>>, state |-> "untouched"]
        ELSE [pool |-> inf.pool, estimate |-> inf.estimate,
              error |-> "none", pages |-> merged,
              path |-> dest, written |-> merged, state |-> "complete"]

\* the pages tried: a blank page, a page with two fonts of size 12 and 12s in
\* its stream and layout, a page with 72 in its stream, and a page whose
\* stream and layout cannot be read and whose one font has a box of size 72
CopyPages ==
    { [fonts |-> <<>>,
       content |-> [has |-> FALSE, readable |-> TRUE, tf |-> <<>>],
       layout |-> [readable |-> TRUE, hasLayout |-> FALSE, heights |-> <<>>]],
      [fonts |-> << MakeFont(TRUE, <<12, NoVal, NoVal, NoVal>>, <<FALSE, 0, 0, 0>>,
                             <<FALSE, FALSE, FALSE, 0>>, <<FALSE, 0, 0>>),
                    MakeFont(FALSE, <<NoVal, NoVal, NoVal, NoVal>>, <<FALSE, 0, 0, 0>>,
                             <<TRUE, TRUE, TRUE, 12>>, <<FALSE, 0, 0>>) >>,
       content |-> [has |-> TRUE, readable |-> TRUE, tf |-> <<12, 3>>],
       layout |-> [readable |-> TRUE, hasLayout |-> TRUE, heights |-> <<12>>]],
      [fonts |-> <<>>,
       content |-> [has |-> TRUE, readable |-> TRUE, tf |-> <<72>>],
       layout |-> [readable |-> TRUE, hasLayout |-> TRUE, heights |-> <<12>>]],
      [fonts |-> << MakeFont(TRUE, <<NoVal, NoVal, NoVal, NoVal>>, <<TRUE, 4, 0, 6000>>,
                             <<FALSE, FALSE, FALSE, 0>>, <<FALSE, 0, 0>>) >>,
       content |-> [has |-> TRUE, readable |-> FALSE, tf |-> <<12>>],
       layout |-> [readable |-> FALSE, hasLayout |-> TRUE, heights |-> <<12>>]] }

\* the placements tried: two on page 1 and an empty one on page 2
CopyPhChoices ==
    { [question |-> "Name", response |-> "Jane Doe", page |-> 1, x |-> 100, y |-> 700],
      [question |-> "Name", response |-> "Jane Doe", page |-> 1, x |-> 300, y |-> 700],
      [question |-> "Name", response |-> "", page |-> 2, x |-> 100, y |-> 700] }

\* the document is missing, is read, or makes method 2 raise; an exact tie
\* of the outlier filter goes the same way in both copies, which compute it
\* with the same operations on the same numbers
CopyDocStates ==
    { [exists |-> FALSE, raises |-> FALSE, tieKept |-> TRUE],
      [exists |-> TRUE, raises |-> TRUE, tieKept |-> TRUE],
      [exists |-> TRUE, raises |-> FALSE, tieKept |-> TRUE],
      [exists |-> TRUE, raises |-> FALSE, tieKept |-> FALSE] }

\* fill_pdf.py, lines 146-248
RunFillPdf ==
    /\ copy_in # <<>>
    /\ copy_fill = <<>>
    /\ copy_fill' = fill_pdfRun(copy_in)
    /\ UNCHANGED <<copy_in, copy_app, inferVars, docVars, fillVars,
                   pickerVars, gridVars, fontVars>>

\* app.py, lines 286-388
RunApp ==
    /\ copy_in # <<>>
    /\ copy_app = <<>>
    /\ copy_app' = app_fill_pdfRun(copy_in)
    /\ UNCHANGED <<copy_in, copy_fill, inferVars, docVars, fillVars,
                   pickerVars, gridVars, fontVars>>

CopyInit ==
    /\ \E d \in SeqsUpTo(CopyPages, MaxPages), st \in CopyDocStates,
          call \in CallChoices, phs \in SeqsUpTo(CopyPhChoices, MaxPh) :
          copy_in = [doc |-> d, exists |-> st.exists, raises |-> st.raises,
                     tieKept |-> st.tieKept, pdf_path |-> call.pdf_path,
                     output_path |-> call.output_path, placeholders |-> phs]
    /\ copy_fill = <<>>
    /\ copy_app = <<>>
    /\ InferIdle
    /\ DocIdle
    /\ FillIdle
    /\ PickerIdle
    /\ GridIdle
    /\ FontIdle

CopyNext ==
    \/ RunFillPdf
    \/ RunApp

\* the same call handed to fill_pdf of fill_pdf.py and to fill_pdf of app.py
SpecCopies == CopyInit /\ [][CopyNext]_vars

(* ================================ claims =============================== *)
\* a source page as the reader yields it, nothing merged onto it
Untouched(i) == [src |-> i, layers |-> <<>>]

\* no placeholder of the argument list maps to the 0-based page i
NoPlacementOn(i) == \A k \in 1..Len(placeholders) : placeholders[k].page # i + 1

\* C1: the output document has exactly N pages and output page i comes from
\* source page i, with or without placements; while the loop runs the writer
\* holds the first page_num source pages in order.
C1_PageCountAndOrder ==
    /\ \A i \in 1..Len(writer) : writer[i].src = i - 1
    /\ fpc = "pages" => Len(writer) = page_num
    /\ fpc \in {"writing", "done"} => Len(writer) = numPages
    /\ fpc = "done" =>
          /\ Len(output_file.pages) = numPages
          /\ \A i \in 1..numPages : output_file.pages[i].src = i - 1

C1_Witness ==
    /\ fpc = "done"
    /\ numPages = 2
    /\ 0 \in DOMAIN page_placeholders
    /\ 1 \notin DOMAIN page_placeholders
    /\ Len(output_file.pages) = 2

\* C2: a run given a placement whose page is greater than the page count does
\* not complete: fill_pdf raises PageOutOfRange instead of writing the output.
C2_OutOfRangeAborts ==
    fpc = "done" => \A k \in 1..Len(placeholders) : placeholders[k].page <= numPages

\* C3: no draw operation is emitted for a placement with empty text, and the
\* operations of a page are those of its placements with non-empty text.
C3_EmptyTextSkipped ==
    \A i \in DOMAIN pages : \A l \in 1..Len(pages[i].layers) :
        LET ops == pages[i].layers[l].ops
            mine == SelectSeq(placeholders, LAMBDA ph : ph.page = i + 1 /\ ph.response # "")
        IN  /\ \A o \in 1..Len(ops) : ops[o].text # ""
            /\ Len(ops) = Len(mine)
            /\ \A o \in 1..Len(ops) :
                  ops[o] = [x |-> mine[o].x, y |-> mine[o].y - 5, text |-> mine[o].response]

\* C4: a page that no placement maps to gets no overlay and no merge; the page
\* added to the output is the source page unchanged.
C4_UnfilledPagePassesThrough ==
    \A i \in 0..(numPages - 1) :
        NoPlacementOn(i) =>
            /\ i \in DOMAIN pages => pages[i] = Untouched(i)
            /\ i + 1 <= Len(writer) => writer[i + 1] = Untouched(i)
            /\ fpc = "done" => output_file.pages[i + 1] = Untouched(i)

C4_Witness ==
    /\ fpc = "done"
    /\ numPages = 2
    /\ NoPlacementOn(1)
    /\ ~NoPlacementOn(0)
    /\ Len(output_file.pages[1].layers) = 1
    /\ output_file.pages[2] = Untouched(1)

\* C5: after any run of fill_pdf, failed or not, the destination holds the
\* complete output document or is as it was before the call.
fill_pdfEnded == fpc \in {"done", "raised"}

C5_NoPartialDestination ==
    fill_pdfEnded =>
        \/ output_file = destBefore
        \/ output_file = [state |-> "complete", pages |-> writer]

\* C6: with a missing source document fill_pdf ends with an error that reaches
\* the caller and leaves the destination as it was, after the inference has
\* returned the fallback 9.
C6_MissingSourceSurfaces ==
    ~docExists =>
        /\ output_file = destBefore
        /\ fpc \in {"start", "open", "raised"}
        /\ fpc # "start" => char_size = <<9, 1>>
        /\ fill_pdfEnded => fpc = "raised" /\ fError = "FileNotFoundError"

C6_Witness ==
    /\ ~docExists
    /\ fpc = "raised"
    /\ fError = "FileNotFoundError"
    /\ char_size = <<9, 1>>
    /\ output_file = destBefore

\* C7: when no method offers a candidate in [4, 72] on any page, the
\* function returns exactly 9.
C7_FallbackWithoutCandidates ==
    (ipc = "returned" /\ gathered = <<>>) => result = <<9, 1>>

C7_Witness ==
    /\ ipc = "returned"
    /\ docExists
    /\ numPages = 2
    /\ ipage = 0
    /\ ~viaExcept
    /\ gathered = <<>>
    /\ result = <<9, 1>>

\* C8: the value returned for a document lies in [4, 72].
C8_ResultInRange ==
    ipc = "returned" => RatGeq(result, 4) /\ RatLeq(result, 72)

\* a run whose pool lost a candidate to the outlier filter
C8_Witness ==
    /\ ipc = "returned"
    /\ ~viaExcept
    /\ Len(sizes) >= 6
    /\ result[2] < Len(sizes)
    /\ ~RatEq(result, 9)

\* the pool without its i-th candidate
Others(pool, i) ==
    [j \in 1..(Len(pool) - 1) |-> IF j < i THEN pool[j] ELSE pool[j + 1]]

Spread(s) ==
    LET vals == {s[j] : j \in 1..Len(s)}
    IN  (CHOOSE hi \in vals : \A v \in vals : v <= hi)
          - (CHOOSE lo \in vals : \A v \in vals : lo <= v)

Dist(a, b) == IF a < b THEN b - a ELSE a - b

\* candidate i is an extreme outlier: farther from every other candidate than
\* ten times the spread of the others plus one
ExtremeOutlier(pool, i) ==
    /\ Len(pool) > 2
    /\ \A j \in 1..Len(pool) :
          j # i => Dist(pool[i], pool[j]) > 10 * (Spread(Others(pool, i)) + 1)

MeanWithout(pool, i) == <<SumSeq(Others(pool, i)), Len(pool) - 1>>

\* C9, as claimed: in a pool of more than 2 values the one extreme outlier is
\* excluded from the final mean.
C9_OutlierExcluded ==
    ipc = "returned" =>
        \A i \in 1..Len(sizes) :
            ExtremeOutlier(sizes, i) => result = MeanWithout(sizes, i)

\* C9, amended: the extreme outlier is excluded when the pool has at least 6
\* values; in a pool of 3 to 5 values it is kept and enters the mean (unless
\* it sits exactly 2 standard deviations from the mean, where rounding
\* decides); [10, 11, 9, 10, 200] gives 48.
C9_OutlierExcludedFromSixValues ==
    ipc = "returned" =>
        /\ \A i \in 1..Len(sizes) :
              ExtremeOutlier(sizes, i) =>
                 /\ Len(sizes) >= 6 => result = MeanWithout(sizes, i)
                 /\ (Len(sizes) <= 5 /\ ~HasTie(sizes)) =>
                        result = <<SumSeq(sizes), Len(sizes)>>
        /\ sizes = <<10, 11, 9, 10, 200>> => result = <<240, 5>>

C9_Witness ==
    /\ ipc = "returned"
    /\ sizes = <<10, 11, 9, 10, 10, 200>>
    /\ ExtremeOutlier(sizes, 6)
    /\ result = <<50, 5>>

\* C10: a page whose content stream or text layout cannot be parsed adds no
\* candidate, the loops go on with the remaining pages, and the estimate is
\* the one of the candidates gathered from the other pages and methods.
C10_PageFailureAbsorbed ==
    failed # {} =>
        /\ sizes = gathered
        /\ \A f \in failed :
              /\ ipc \in {"m2", "m3", "final", "returned"}
              /\ ipc = f[1] => ipage > f[2]
              /\ f[1] = "m3" => ipc # "m2"
        /\ (ipc = "returned" /\ ~viaExcept) =>
              \E tieKept \in BOOLEAN : result = FinalSize(gathered, tieKept)
        /\ (ipc = "returned" /\ \E p \in 1..numPages : <<"m3", p>> \in failed) =>
              ~viaExcept

C10_Witness ==
    /\ ipc = "returned"
    /\ ~viaExcept
    /\ numPages = 2
    /\ <<"m2", 1>> \in failed
    /\ <<"m3", 2>> \in failed
    /\ Len(gathered) >= 2
    /\ ~RatEq(result, 9)

C24_SmallPoolKeptWhole ==
    (/\ ipc = "returned"
     /\ Len(sizes) \in 3..5
     /\ \A i \in 1..Len(sizes) : Plausible(sizes[i])) =>
        result = <<SumSeq(sizes), Len(sizes)>>

(* ------------------------------- fill_pdf ----------------------------- *)
\* the placeholders of the argument list that name the 0-based page n
PlacementsOn(n) == SelectSeq(placeholders, LAMBDA ph : ph.page = n + 1)

\* C14: every text run is drawn at (x, y - 5) of its placement, starting at
\* x, in the italic built-in face Helvetica-Oblique at the inferred size with
\* fill colour RGB (0, 51, 102); the placement keeps its own x and y
C14_RunStyleAndOffset ==
    /\ \A n \in DOMAIN page_placeholders :
          page_placeholders[n] = PlacementsOn(n)
    /\ \A i \in 1..Len(writer) : \A k \in 1..Len(writer[i].layers) :
          LET layer == writer[i].layers[k]
              phs == PlacementsOn(writer[i].src)
          IN  /\ layer.font = "Helvetica-Oblique"
              /\ layer.size = char_size
              /\ layer.color = <<0, 51, 102>>
              /\ Len(layer.ops) = Len(phs)
              /\ \A o \in 1..Len(phs) :
                    /\ layer.ops[o].x = phs[o].x
                    /\ layer.ops[o].y = phs[o].y - 5

\* a written page carrying two runs
C14_Witness ==
    /\ fpc = "done"
    /\ \E i \in 1..Len(writer) :
          /\ Len(writer[i].layers) = 1
          /\ Len(writer[i].layers[1].ops) = 2
          /\ writer[i].layers[1].ops[1].x # writer[i].layers[1].ops[2].x

\* C15: for every page size, the layer merged onto a page has the width and
\* height of the page's bounding box
C15_LayerMatchesPage ==
    \A i \in 1..Len(writer) : \A k \in 1..Len(writer[i].layers) :
        writer[i].layers[k].pagesize = mediabox

\* C16 as stated: without output_path the destination is the source name
\* with "_filled" inserted before the source's extension, which is kept;
\* a given output_path is used unchanged
C16_ExtensionKept ==
    fpc # "start" =>
        output_path =
            IF output_path_arg = <<>>
            THEN splitext(pdf_path)[1] \o <<"_filled">> \o splitext(pdf_path)[2]
            ELSE output_path_arg

\* C16, amended: without output_path the destination is the source name
\* with its extension replaced by "_filled.pdf"; a given output_path is used
\* unchanged
C16_FilledPdfName ==
    fpc # "start" =>
        output_path =
            IF output_path_arg = <<>>
            THEN splitext(pdf_path)[1] \o <<"_filled", ".pdf">>
            ELSE output_path_arg

\* a source named form.PDF filled without output_path
C16_Witness ==
    /\ fpc = "done"
    /\ output_path_arg = <<>>
    /\ pdf_path = <<"form", ".PDF">>
    /\ output_path = <<"form", "_filled", ".pdf">>

\* C21: the destination is opened for writing only after every source page
\* was composed, merged and added to the output document; a failure while
\* opening the source, grouping, composing or merging leaves the destination
\* as it was, neither created nor truncated
C21_DestinationOpenedLast ==
    /\ output_file # destBefore =>
          /\ page_num = numPages
          /\ Len(writer) = numPages
          /\ \A i \in 1..Len(writer) : writer[i] = pages[i - 1]
    /\ fError \in {"FileNotFoundError", "MergeError"} => output_file = destBefore

\* the merge of the second page failed and the old destination is intact
C21_Witness ==
    /\ fpc = "raised"
    /\ fError = "MergeError"
    /\ page_num = 1
    /\ Len(writer) = 1
    /\ destBefore.state = "old"
    /\ output_file = destBefore

\* the runs that the placements naming the 0-based page n ask for, in the
\* order of the argument list
RunsOf(n) ==
    [o \in 1..Len(PlacementsOn(n)) |->
        [x |-> PlacementsOn(n)[o].x,
         y |-> PlacementsOn(n)[o].y - Y_OFFSET,
         text |-> PlacementsOn(n)[o].response]]

\* C25: the runs drawn on page p are exactly the placements of the argument
\* list whose page number is p + 1, in the order of that list: a page gets at
\* most one layer, the layer holds one run per such placement and nothing
\* else, and a page that was composed has got all of its runs
C25_RunsOfPageInOrder ==
    /\ \A p \in DOMAIN pages :
          /\ Len(pages[p].layers) <= 1
          /\ \A k \in 1..Len(pages[p].layers) : pages[p].layers[k].ops = RunsOf(p)
          /\ (p < page_num /\ PlacementsOn(p) # <<>>) => Len(pages[p].layers) = 1
          /\ p >= page_num => pages[p].layers = <<>>
    /\ \A i \in 1..Len(writer) : writer[i] = pages[i - 1]
    /\ fpc = "done" =>
          \A i \in 1..Len(output_file.pages) : output_file.pages[i] = pages[i - 1]

\* the second placement of the list was drawn on page 1 and the first one on
\* page 2, each of them once
C25_Witness ==
    /\ fpc = "done"
    /\ numPages = 2
    /\ Len(placeholders) = 2
    /\ placeholders[1].page = 2
    /\ placeholders[2].page = 1
    /\ output_file.pages[1].layers[1].ops = RunsOf(0)
    /\ output_file.pages[2].layers[1].ops = RunsOf(1)
    /\ Len(RunsOf(0)) = 1
    /\ Len(RunsOf(1)) = 1

(* ------------------------ manual_entry_finder.py ---------------------- *)
\* the picker has a displayed image
Displayed == ppc \in {"events", "crashed", "save", "exit"}

\* docX = (clickX / displayWidth) * targetWidth and
\* docY = targetHeight - (clickY / displayHeight) * targetHeight
IsDocPointOf(point, pos) ==
    /\ point[1][1] * display_img_width = pos[1] * TARGET_WIDTH * point[1][2]
    /\ point[2][1] * display_img_height =
          (TARGET_HEIGHT * display_img_height - pos[2] * TARGET_HEIGHT) * point[2][2]

\* C11: for every click inside the displayed image the picker holds, and on
\* Enter records, docX = (clickX / displayWidth) * targetWidth and
\* docY = targetHeight - (clickY / displayHeight) * targetHeight, as exact
\* values: nothing rounds them
C11_ClickMapsToDocumentPoint ==
    Displayed =>
        /\ current_click_target_coords # <<>> =>
               IsDocPointOf(current_click_target_coords, clickPos)
        /\ Len(entryClicks) = Len(entries)
        /\ \A i \in 1..Len(entries) :
               /\ entryClicks[i][1] < display_img_width
               /\ entryClicks[i][2] < display_img_height
               /\ IsDocPointOf(<<entries[i].position.x, entries[i].position.y>>,
                               entryClicks[i])

\* a record made from a click at the far corner of a scaled image
C11_Witness ==
    /\ display_img_surface = "scaled"
    /\ \E i \in 1..Len(entries) :
          entryClicks[i] = <<display_img_width - 1, display_img_height - 1>>

\* the proportional position a document point maps back to:
\* propX = docX / targetWidth, propY = (targetHeight - docY) / targetHeight
PropOf(point) ==
    << <<point[1][1], point[1][2] * TARGET_WIDTH>>,
       <<TARGET_HEIGHT * point[2][2] - point[2][1], point[2][2] * TARGET_HEIGHT>> >>

\* the proportional position of a click
PropOfClick(pos) == << <<pos[1], display_img_width>>, <<pos[2], display_img_height>> >>

SamePoint(a, b) == FracEq(a[1], b[1]) /\ FracEq(a[2], b[2])

RecordedPoint(i) == <<entries[i].position.x, entries[i].position.y>>

\* C12: mapping a proportional position to document space and back gives
\* the original proportional position, and two different proportional
\* positions never map to the same document point
C12_MappingInvertible ==
    Displayed =>
        /\ \A i \in 1..Len(entries) :
               SamePoint(PropOf(RecordedPoint(i)), PropOfClick(entryClicks[i]))
        /\ \A i, j \in 1..Len(entries) :
               SamePoint(RecordedPoint(i), RecordedPoint(j)) =>
                  SamePoint(PropOfClick(entryClicks[i]), PropOfClick(entryClicks[j]))

\* two records made from neighbouring pixels of an image wider than the
\* document
C12_Witness ==
    /\ display_img_width > TARGET_WIDTH
    /\ Len(entries) = 2
    /\ entryClicks[1] = <<0, 0>>
    /\ entryClicks[2] = <<1, 0>>

\* min(1, MAX_DISPLAY_WIDTH / width, MAX_DISPLAY_HEIGHT / height)
FracMin(r, q) == IF FracLess(q, r) THEN q ELSE r
MinScale(w, h) ==
    FracMin(<<1, 1>>, FracMin(<<MAX_DISPLAY_WIDTH, w>>, <<MAX_DISPLAY_HEIGHT, h>>))

\* a displayed length is the source length times the scale factor, cut to
\* whole pixels
ScaledBy(d, length, s) ==
    /\ d * s[2] <= length * s[1]
    /\ length * s[1] <= (d + 1) * s[2]

ScaledToFit ==
    /\ FracEq(scale_factor, MinScale(original_img[1], original_img[2]))
    /\ ~FracLess(<<1, 1>>, scale_factor)
    /\ ScaledBy(display_img_width, original_img[1], scale_factor)
    /\ ScaledBy(display_img_height, original_img[2], scale_factor)
    /\ display_img_width <= MAX_DISPLAY_WIDTH
    /\ display_img_height <= MAX_DISPLAY_HEIGHT

\* C13 as stated: for every source image size the scale factor equals
\* min(1, MAX_DISPLAY_WIDTH / width, MAX_DISPLAY_HEIGHT / height), it is
\* never above 1, it is applied to both axes, and the displayed width and
\* height are at most MAX_DISPLAY_WIDTH and MAX_DISPLAY_HEIGHT
C13_ScaledToFit == Displayed => ScaledToFit

\* C13, amended: the same, unless smoothscale raised; then the scale factor
\* is 1 and the image is displayed at its source size, above the limits
C13_ScaledToFitUnlessScalingFails ==
    Displayed =>
        IF display_img_surface = "original after error"
        THEN /\ scale_factor = <<1, 1>>
             /\ display_img_width = original_img[1]
             /\ display_img_height = original_img[2]
             /\ \/ display_img_width > MAX_DISPLAY_WIDTH
                \/ display_img_height > MAX_DISPLAY_HEIGHT
        ELSE ScaledToFit

\* an image within the width limit scaled down to the height limit
C13_Witness ==
    /\ Displayed
    /\ display_img_surface = "scaled"
    /\ original_img[1] <= MAX_DISPLAY_WIDTH
    /\ display_img_height = MAX_DISPLAY_HEIGHT
    /\ display_img_width < original_img[1]

\* C18: in every state of the picker every record of the list, and of the
\* file written from it, has an empty response
C18_ResponseEmpty ==
    /\ \A i \in 1..Len(entries) : entries[i].response = <<>>
    /\ \A i \in 1..Len(saved) : saved[i].response = <<>>

\* the list was filled and written
C18_Witness ==
    /\ ppc = "exit"
    /\ Len(entries) = MaxEntries
    /\ saved = entries

\* C22: entries grows only by an Enter key press made with the input box
\* active, a recorded click and a non-empty typed text, and that press
\* appends one entry whose question is the text and clears the click, the
\* text and the active flag; so every entry has a non-empty question and
\* there are at most as many entries as clicks within the image
C22_AppendOnlyOnEnter ==
    /\ [](/\ \A i \in 1..Len(entries) : entries[i].question # <<>>
          /\ Len(entries) <= imageClicks)
    /\ [][entries' # entries =>
            /\ Enter
            /\ input_active
            /\ current_click_target_coords # <<>>
            /\ input_text # <<>>
            /\ Len(entries') = Len(entries) + 1
            /\ SubSeq(entries', 1, Len(entries)) = entries
            /\ entries'[Len(entries')].question = input_text
            /\ current_click_target_coords' = <<>>
            /\ input_text' = <<>>
            /\ ~input_active']_vars

\* two entries were appended, each after its own click and typed text
C22_Witness ==
    /\ Len(entries) = 2
    /\ imageClicks = 2
    /\ current_click_target_coords = <<>>
    /\ input_text = <<>>
    /\ ~input_active

(* ----------------------------- pdf_to_grid.py ------------------------- *)
\* the multiples of the spacing from 0 up to a bound
GridStops(bound) == {n \in 0..bound : n % grid_spacing = 0}

\* both loops of the page at hand have ended
GridDrawn == gpc = "hlines" /\ grid_y > grid_height

\* what the claim has on the canvas of a page W by H
ExpectedGridOps(W, H) ==
    {Line(px, 0, px, H) : px \in GridStops(W)}
    \cup {Label(px + 2, 3, px) : px \in GridStops(W) \ {0}}
    \cup {Line(0, py, W, py) : py \in GridStops(H)}
    \cup {Label(3, py + 2, py) : py \in GridStops(H)}

\* C17: for a page W by H and a spacing s >= 1 the annotator draws a
\* vertical line at each x in {0, s, 2s, ...} with x <= W and a horizontal
\* line at each y in {0, s, 2s, ...} with y <= H, labels every vertical line
\* except the one at x = 0 and every horizontal line, the one at y = 0
\* included, and draws nothing else
C17_GridLinesAndLabels ==
    GridDrawn =>
        /\ {can.ops[k] : k \in 1..Len(can.ops)} =
              ExpectedGridOps(grid_width, grid_height)
        /\ Len(can.ops) = 2 * Cardinality(GridStops(grid_width)) - 1
                          + 2 * Cardinality(GridStops(grid_height))
        /\ can.pagesize = <<grid_width, grid_height>>

\* a page whose width is a multiple of the spacing and whose height is not
C17_Witness ==
    /\ GridDrawn
    /\ grid_spacing = 2
    /\ grid_width = 4
    /\ grid_height = 3

\* the lines on the canvas that run from the bottom to the top of the page,
\* and those that run from its left to its right
VerticalLines ==
    {k \in 1..Len(can.ops) :
        can.ops[k].op = "line" /\ can.ops[k].at[1] = can.ops[k].at[3]}
HorizontalLines ==
    {k \in 1..Len(can.ops) :
        can.ops[k].op = "line" /\ can.ops[k].at[2] = can.ops[k].at[4]}

\* C28: with grid_spacing >= 1 both loops of a page end, the first after
\* floor(width / spacing) + 1 vertical lines and the second after
\* floor(height / spacing) + 1 horizontal lines; with grid_spacing <= 0 the
\* counter x never passes the page width and the first loop is never left
C28_GridLoopsTerminate ==
    /\ [](GridDrawn =>
            /\ grid_spacing >= 1
            /\ Cardinality(VerticalLines) = (grid_width \div grid_spacing) + 1
            /\ Cardinality(HorizontalLines) = (grid_height \div grid_spacing) + 1)
    /\ (gpc = "vlines" /\ grid_spacing >= 1) ~> (gpc = "hlines")
    /\ (gpc = "hlines" /\ grid_spacing >= 1) ~> (gpc \in {"page", "done"})
    /\ [](grid_spacing <= 0 =>
            /\ grid_x <= 0
            /\ grid_x <= grid_width
            /\ gpc # "hlines"
            /\ grid_writer = <<>>)
    /\ [][(gpc = "vlines" /\ grid_spacing <= 0) => gpc' = "vlines"]_vars

\* both loops of a page 4 by 3 have ended with spacing 3
C28_Witness ==
    /\ GridDrawn
    /\ grid_spacing = 3
    /\ grid_width = 4
    /\ grid_height = 3
    /\ Cardinality(VerticalLines) = 2
    /\ Cardinality(HorizontalLines) = 2

\* the first loop is still running after MaxPasses passes with spacing 0
C28_WitnessStuck ==
    /\ gpc = "vlines"
    /\ grid_spacing = 0
    /\ grid_x = 0
    /\ Len(can.ops) = MaxPasses

(* ----------------- get_average_char_size, the three methods ----------- *)
\* C19: the three methods are not short-circuited: the pool handed to the
\* outlier rejection is the in-range candidates of the descriptor method,
\* then those of the content-stream scan, then those of the text-layout
\* method, and every method has run on every page, whatever method 1 found
C19_AllMethodsPooledInOrder ==
    ipc = "final" =>
        /\ sizes = offered[1] \o offered[2] \o offered[3]
        /\ analysed = {"m1", "m2", "m3"} \X (1..numPages)

\* a pool with candidates of all three methods
C19_Witness ==
    /\ ipc = "final"
    /\ offered[1] # <<>>
    /\ offered[2] # <<>>
    /\ offered[3] # <<>>

\* C26: get_average_char_size always ends by returning a value: a failure
\* to open the document, or of a step outside the per-page guards of methods
\* 2 and 3, makes it return 9 whatever candidates were collected before; a
\* return that does not come from the except clause has run every method on
\* every page
C26_FailureReturnsDefault ==
    /\ ipc \in {"open", "m1", "m2", "m3", "final", "returned"}
    /\ (ipc = "returned" /\ viaExcept) => result = <<DEFAULT_SIZE, 1>>
    /\ (~docExists /\ ipc # "open") =>
          ipc = "returned" /\ viaExcept /\ gathered = <<>>
    /\ (ipc = "returned" /\ ~viaExcept) =>
          /\ docExists
          /\ analysed = {"m1", "m2", "m3"} \X (1..numPages)

\* a failure in the second pass of method 1 discarded the candidates of the
\* first pass
C26_Witness ==
    /\ ipc = "returned"
    /\ viaExcept
    /\ docExists
    /\ gathered # <<>>
    /\ sizes = gathered
    /\ analysed = {<<"m1", 1>>}
    /\ result = <<DEFAULT_SIZE, 1>>

\* the descriptor metrics of a font in the order the code asks for them
MetricsOf(f) == <<f.cap, f.xh, f.asc, f.fh>>
PresentMetrics(f) == SelectSeq(MetricsOf(f), LAMBDA v : v # NoVal)
HasMetric(f) == f.hasDesc /\ PresentMetrics(f) # <<>>
UsesBBox(f) == f.hasDesc /\ ~HasMetric(f) /\ f.hasBBox /\ f.bboxLen >= 4
UsesBaseFont(f) ==
    ~HasMetric(f) /\ ~UsesBBox(f) /\ f.hasBase /\ f.dash /\ f.digits
UsesMatrix(f) ==
    ~HasMetric(f) /\ ~UsesBBox(f) /\ ~UsesBaseFont(f)
    /\ f.hasMatrix /\ f.matrixLen >= 4

\* a size, if it is plausible
IfPlausible(v) == IF Plausible(v) THEN <<v>> ELSE <<>>

\* C20: a font contributes at most one candidate: the first present of cap
\* height, x-height, ascent and font height; the bounding-box estimate only
\* when none of them is present, the base-name suffix only when there is
\* still no size, the font matrix only after that; a font whose first
\* present metric is outside [4, 72] contributes nothing
C20_FontCascade ==
    font_pc = "done" =>
        LET f == font_entry
        IN  /\ Len(font_sizes) <= 1
            /\ font_sizes =
                  IF ~f.isDict THEN <<>>
                  ELSE IF HasMetric(f) THEN IfPlausible(Head(PresentMetrics(f)))
                  ELSE IF UsesBBox(f) THEN IfPlausible(((f.b3 - f.b1) * 12) \div 1000)
                  ELSE IF UsesBaseFont(f) THEN IfPlausible(f.suffix)
                  ELSE IF UsesMatrix(f)
                       THEN IfPlausible(IF f.m3 < 0 THEN 0 - f.m3 ELSE f.m3)
                       ELSE <<>>

\* a font whose cap height is 700 and whose x-height, bounding box, name
\* suffix and matrix would each give a plausible size
C20_Witness ==
    /\ font_pc = "done"
    /\ font_entry.isDict
    /\ font_entry.hasDesc
    /\ font_entry.cap = 700
    /\ font_entry.xh = 72
    /\ UsesBBox([font_entry EXCEPT !.cap = NoVal, !.xh = NoVal])
    /\ font_entry.hasBase /\ font_entry.dash /\ font_entry.digits
    /\ font_entry.suffix = 12
    /\ font_entry.hasMatrix /\ font_entry.matrixLen >= 4
    /\ font_sizes = <<>>

(* ----------------------- fill_pdf.py and app.py ------------------------ *)
\* C27: given the same document, placement list and output_path, the copy
\* of the pipeline in app.py and the one in fill_pdf.py build the same
\* candidate pool, return the same estimate, draw the same runs on the same
\* pages and write the same page sequence to the same destination
C27_CopiesEquivalent ==
    (copy_fill # <<>> /\ copy_app # <<>>) =>
        /\ copy_app.pool = copy_fill.pool
        /\ copy_app.estimate = copy_fill.estimate
        /\ copy_app.error = copy_fill.error
        /\ copy_app.pages = copy_fill.pages
        /\ copy_app.path = copy_fill.path
        /\ copy_app.written = copy_fill.written
        /\ copy_app.state = copy_fill.state

\* both copies rejected the 72 of a six-value pool, drew the two runs of page
\* 1 at size 12 and wrote two pages to form_filled.pdf
C27_Witness ==
    /\ copy_fill # <<>>
    /\ copy_app # <<>>
    /\ copy_app.pool = <<12, 12, 12, 72, 12, 12>>
    /\ copy_app.estimate = <<60, 5>>
    /\ Len(copy_app.written) = 2
    /\ Len(copy_app.written[1].layers) = 1
    /\ Len(copy_app.written[1].layers[1].ops) = 2
    /\ copy_app.written[2].layers = <<>>
    /\ copy_app.path = <<"form", "_filled", ".pdf">>
    /\ copy_fill = copy_app

====
